---- MODULE Spec2Model ----
(***************************************************************************)
(* Script generation and metered audio rendering of project-tree:          *)
(*   src/script_generator.py  generate_script                              *)
(*   src/tts_generator.py     load_usage_data, select_project,             *)
(*                            update_usage, generate_audio                 *)
(*   src/api.py               get_tts_usage, the callers                   *)
(*                                                                         *)
(* The state is the scripts table (committed rows), the artifact files on  *)
(* disk, the usage file config/tts_usage.json, the wall clock, and every   *)
(* worker's position in the function it is executing with its locals.      *)
(***************************************************************************)
EXTENDS Integers, Sequences, FiniteSets, TLC

\* ------------------------------------------------------------ parameters

\* datetime.now().month ranges over 1..12
MonthsPerYear == 12
\* config["safety_limit"] of config/tts_config.json, when the file has it
SafetyLimit == 1000
\* config.get("safety_limit", 800000): the limit select_project falls back on
DefaultSafetyLimit == 800000
\* how many requests are accepted in one behaviour when they are served one
\* at a time
MaxRequests == 3
\* how many requests are accepted in one behaviour when two executions serve
\* them at once
MaxConcurrent == 2
\* how many times the clock moves to a later month in one behaviour
MaxTicks == 1

\* config["projects"], in list order
ConfigProjects == <<"A", "B">>
\* config/tts_config.json as load_tts_config returns it: with safety_limit,
\* or without the key
Configs ==
    {[projects |-> ConfigProjects, safety_limit |-> SafetyLimit],
     [projects |-> ConfigProjects]}
\* config/tts_config.json as load_tts_config finds it: not there, there and
\* empty, or holding one of Configs
ConfigFiles ==
    {[exists |-> FALSE, json |-> FALSE, config |-> [projects |-> <<>>]],
     [exists |-> TRUE, json |-> FALSE, config |-> [projects |-> <<>>]]}
      \cup {[exists |-> TRUE, json |-> TRUE, config |-> c] : c \in Configs}
\* len(response.audio_content) of the responses of the synthesis
AudioLens == {21, 36}
\* how many bytes of the response are in the file when its write fails
CutLens == {0, 10, 30}
\* audio_params as the callers pass it: the dict of the docstring, or the
\* news_type string of the generate-audio route
AudioParams == {"dict", "str"}
\* chars_used of the projects in the usage files a behaviour may start from
InitLedgers == {<<800, 999>>, <<SafetyLimit, SafetyLimit>>}
\* age in months of the usage file when the behaviour starts
InitAges == {0, MonthsPerYear}
\* len(full_text) of the narrations requests ask for (0: empty summary_text)
SummaryLens == {0, 150}
\* script_uuid values, in the order the scripts table hands them out
ScriptSeq == <<"s1", "s2">>
Scripts == {ScriptSeq[i] : i \in 1..Len(ScriptSeq)}
\* request-scoped executions
Procs == {"w1", "w2"}

\* the clock starts late enough for a usage file InitAges old
StartNow == MonthsPerYear

VARIABLES
    now,      \* the clock, as a count of calendar months
    ticks,    \* how many times the clock has moved
    requests, \* how many requests have been accepted since the start
    usage,    \* config/tts_usage.json: [exists, size, json, projects]
    db,       \* the scripts table, committed rows: script_uuid -> row
    issued,   \* script_uuid values already returned by an INSERT
    disk,     \* output/scripts/<uuid>/: the artifact files written
    pc,       \* each worker's position
    loc,      \* each worker's locals
    job       \* one call of a track or manifest function: arguments, result

vars == <<now, ticks, requests, usage, db, issued, disk, pc, loc, job>>

\* ------------------------------------------------------------ the clock

\* datetime.now().month
CurrentMonth(t) == (t % MonthsPerYear) + 1

\* ------------------------------------------------------------ usage file

\* One entry of usage["projects"].  period is the calendar month (counted
\* like the clock) in which month was written: month = CurrentMonth(period).
UsageEntry(id, period, chars) ==
    [project_id |-> id, month |-> CurrentMonth(period), period |-> period,
     chars_used |-> chars]

NoUsage == [exists |-> FALSE, size |-> 0, json |-> FALSE, projects |-> <<>>]

\* len(str(n)) of an integer n >= 0
RECURSIVE DecimalLen(_)
DecimalLen(n) == IF n < 10 THEN 1 ELSE 1 + DecimalLen(n \div 10)

\* json.dump(usage, f, indent=2): the characters around the list entries,
\* and the characters of one entry around its three values
JsonFrame == 22
JsonEntry == 75
\* the characters written for a usage without projects
JsonEmpty == 20

RECURSIVE JsonEntries(_, _)
JsonEntries(projects, i) ==
    IF i > Len(projects) THEN 0
    ELSE JsonEntry + Len(projects[i].project_id) + DecimalLen(projects[i].month)
            + DecimalLen(projects[i].chars_used) + JsonEntries(projects, i + 1)

\* the number of characters json.dump(usage, f, indent=2) writes
JsonSize(projects) ==
    IF projects = <<>> THEN JsonEmpty ELSE JsonFrame + JsonEntries(projects, 1)

\* the file holding one JSON document and nothing else
UsageFile(projects) ==
    [exists |-> TRUE, size |-> JsonSize(projects), json |-> TRUE,
     projects |-> projects]

\* the file between open(USAGE_FILE, 'w') and json.dump: it exists and holds
\* no byte
Truncated == [exists |-> TRUE, size |-> 0, json |-> FALSE, projects |-> <<>>]

\* json.dump through a handle opened before the file got its present
\* content: the document is written from offset 0 over what is there, and
\* what is there beyond its end stays, after the closing brace
Overwritten(file, projects) ==
    IF JsonSize(projects) >= file.size
    THEN UsageFile(projects)
    ELSE [exists |-> TRUE, size |-> file.size, json |-> FALSE,
          projects |-> <<>>]

\* The values datetime.now() returns to the calls of one list comprehension,
\* one call per configured project: the first is the clock as it stands, and
\* the clock may move to a later month between one call and the next.
ClockReadings ==
    {t \in [1..Len(ConfigProjects) -> now..(now + MaxTicks - ticks)] :
        /\ t[1] = now
        /\ \A i \in 1..(Len(ConfigProjects) - 1) : t[i] <= t[i + 1]}

\* load_usage_data, the file does not exist: one entry per configured
\* project, each with the month of its own datetime.now()
FreshUsage(t) ==
    [i \in 1..Len(ConfigProjects) |-> UsageEntry(ConfigProjects[i], t[i], 0)]

\* load_usage_data, the rollover loop
Rollover(projects, t) ==
    [i \in 1..Len(projects) |->
        IF projects[i].month # CurrentMonth(t)
        THEN UsageEntry(projects[i].project_id, t, 0)
        ELSE projects[i]]

\* config.get("safety_limit", 800000)
safety_limit(config) ==
    IF "safety_limit" \in DOMAIN config
    THEN config.safety_limit
    ELSE DefaultSafetyLimit

\* select_project: the entries below the limit
Available(config, projects) ==
    {i \in 1..Len(projects) : projects[i].chars_used < safety_limit(config)}

\* select_project with the comparison off by one: a project exactly at the
\* limit still counts as available
select_project_atlimit(config, projects) ==
    LET available == {i \in 1..Len(projects) :
                        projects[i].chars_used <= safety_limit(config)}
    IN  IF available = {}
        THEN 0
        ELSE CHOOSE i \in available :
                \A j \in available :
                    \/ projects[i].chars_used < projects[j].chars_used
                    \/ (projects[i].chars_used = projects[j].chars_used /\ i <= j)

\* select_project: min(available, key=chars_used), the first of the least used
select_project(config, projects) ==
    LET available == Available(config, projects)
    IN  IF available = {}
        THEN 0
        ELSE CHOOSE i \in available :
                \A j \in available :
                    \/ projects[i].chars_used < projects[j].chars_used
                    \/ (projects[i].chars_used = projects[j].chars_used /\ i <= j)

\* update_usage adding the characters to every project
AddUsage_every(projects, id, chars) ==
    [i \in 1..Len(projects) |->
        [projects[i] EXCEPT !.chars_used = @ + chars]]

\* update_usage: chars_used += chars for the first entry with the project id
AddUsage(projects, id, chars) ==
    LET hits == {i \in 1..Len(projects) : projects[i].project_id = id}
    IN  IF hits = {}
        THEN projects
        ELSE LET k == CHOOSE i \in hits : \A j \in hits : i <= j
             IN  [projects EXCEPT ![k].chars_used = @ + chars]

\* ------------------------------------------------------------ scripts table

NoRow ==
    [exists |-> FALSE, status |-> "", error_message |-> "",
     tts_vtt_path |-> "", captions_vtt_path |-> "", manifest_json |-> "",
     audio_file_path |-> ""]

TtsPath(s) == "output/scripts/" \o s \o "/tts_script.vtt"
CaptionsPath(s) == "output/scripts/" \o s \o "/captions.vtt"
AudioPath(s) == "output/scripts/" \o s \o "/audio.mp3"
ManifestJson(s) == "manifest:" \o s

\* generate_script, the INSERT: the row of the open transaction
PendingRow ==
    [exists |-> TRUE, status |-> "pending", error_message |-> "",
     tts_vtt_path |-> "", captions_vtt_path |-> "", manifest_json |-> "{}",
     audio_file_path |-> ""]

\* generate_script, the UPDATE that records the artifacts
GeneratedRow(row, s) ==
    [row EXCEPT !.manifest_json = ManifestJson(s), !.tts_vtt_path = TtsPath(s),
                !.captions_vtt_path = CaptionsPath(s), !.status = "generated"]

\* the UPDATE to failed without its commit: the table keeps the old row
MarkFailed_lost(table, s, e) == table

\* UPDATE scripts SET status = 'failed', error_message = e WHERE script_uuid = s
MarkFailed(table, s, e) ==
    IF table[s].exists
    THEN [table EXCEPT ![s].status = "failed", ![s].error_message = e]
    ELSE table

\* the UPDATE to audio_ready writing the locator into the wrong column
MarkAudioReady_overTrack(table, s, path) ==
    IF table[s].exists
    THEN [table EXCEPT ![s].status = "audio_ready", ![s].tts_vtt_path = path]
    ELSE table

\* UPDATE scripts SET audio_file_path = path, status = 'audio_ready' WHERE ...
MarkAudioReady(table, s, path) ==
    IF table[s].exists
    THEN [table EXCEPT ![s].status = "audio_ready", ![s].audio_file_path = path]
    ELSE table

\* INSERT ... RETURNING script_uuid: the next value not handed out yet
NewUuid ==
    LET free == {i \in 1..Len(ScriptSeq) : ScriptSeq[i] \notin issued}
    IN  IF free = {} THEN "" ELSE ScriptSeq[CHOOSE i \in free : \A j \in free : i <= j]

\* ------------------------------------------------------------ disk

\* The files of one script directory.  manifest, captions, metadata and
\* audio say whether the file is there as its write left it, tts is the
\* length of the narration of the written track (-1: no such file),
\* audio_size is the number of bytes audio.mp3 holds, and unfinished names
\* the files that an open(..., 'w') has created or emptied and that do not
\* hold what one write has written.
NoFiles == [manifest |-> FALSE, tts |-> -1, captions |-> FALSE,
            metadata |-> FALSE, audio |-> FALSE, audio_size |-> 0,
            unfinished |-> {}]

\* what becomes of a file that is opened for writing and written
WriteOutcomes == {"written", "not_opened", "unfinished"}

\* ------------------------------------------------------------ workers

\* str(e) of the exceptions raised
NoRefMsg == "Either summary_uuid or editor_article_uuid required"
NoTemplateMsg == "No template found for script_type"
NoSummaryMsg == "Summary not found"
NoEditorArticleMsg == "Editor article not found"
TemplateConfigMsg == "'logo'"
NotSerializableMsg == "Object of type bytes is not JSON serializable"
ZeroDivMsg == "float division by zero"
WriteMsg == "OSError"
NotFoundMsg == "Script not found"
NoTrackMsg == "FileNotFoundError"
QuotaMsg == "All projects at quota limit. Try again next month."
SynthMsg == "synthesize_speech failed"
NoGetMsg == "'str' object has no attribute 'get'"
EmptyFileMsg == "Expecting value: line 1 column 1 (char 0)"
ExtraDataMsg == "Extra data"
NoLimitMsg == "'safety_limit'"
NoConfigMsg == "TTS config not found: config/tts_config.json"

\* what generate_script finds before its INSERT
Lookups ==
    {"ok", "no_ref", "no_template", "no_summary", "no_editor_article"}

LookupMsg(l) ==
    CASE l = "no_ref" -> NoRefMsg
      [] l = "no_template" -> NoTemplateMsg
      [] l = "no_summary" -> NoSummaryMsg
      [] l = "no_editor_article" -> NoEditorArticleMsg

NoLocals ==
    [op |-> "", sid |-> "", text |-> 0, full_len |-> 0, audio_params |-> "",
     config |-> <<>>, usage |-> <<>>, fresh |-> FALSE, selected_id |-> "",
     audio_len |-> 0, txn |-> FALSE, e |-> "", result |-> ""]

\* a call begins: fresh locals
Begin(p, op, s) == [loc EXCEPT ![p] = [NoLocals EXCEPT !.op = op, !.sid = s]]

\* a call ends: what the caller sees is the result and, if raised, str(e)
End(p, result, e) ==
    [loc EXCEPT ![p] = [NoLocals EXCEPT !.op = loc[p].op, !.sid = loc[p].sid,
                                        !.result = result, !.e = e]]

\* raise inside the try block: control moves to the except clause
Raise(p, handler, e) ==
    /\ pc' = [pc EXCEPT ![p] = handler]
    /\ loc' = [loc EXCEPT ![p].e = e]

Goto(p, label) == pc' = [pc EXCEPT ![p] = label]

\* ------------------------------------------------------------ text

\* A str is the sequence of its characters.  A character up to U+00FF (Basic
\* Latin and Latin-1 Supplement) is the string that holds it; the few
\* characters past U+00FF that the functions below tell from the others
\* are written by their code points, as in "U+2028".  The characters
\* classified are those up to U+00FF and these.

\* the white space that the text of a track is written with
Blank == {" ", "\t", "\n", "\r", "\f"}
\* the other characters of str.isspace(): U+000B, U+001C to U+001F, U+0085,
\* U+00A0, U+1680, U+2000 to U+200A, U+2028, U+2029, U+202F, U+205F, U+3000
OtherSpace ==
    {"", "", "", "", "", "", " ", "U+1680", "U+2000", "U+2001",
      "U+2002", "U+2003", "U+2004", "U+2005", "U+2006", "U+2007",
      "U+2008", "U+2009", "U+200A", "U+2028", "U+2029", "U+202F",
      "U+205F", "U+3000"}
\* characters that str.split(), str.strip() and the regex class \s treat as
\* whitespace
Whitespace == Blank \cup OtherSpace
\* the regex class [.!?]
Terminal == {".", "!", "?"}

\* the letters c with c.lower() # c, and c.lower() at the same index
Uppercase ==
    <<"A", "B", "C", "D", "E", "F", "G", "H", "I", "J", "K", "L", "M",
      "N", "O", "P", "Q", "R", "S", "T", "U", "V", "W", "X", "Y", "Z",
      "À", "Á", "Â", "Ã", "Ä", "Å", "Æ", "Ç", "È", "É", "Ê", "Ë", "Ì",
      "Í", "Î", "Ï", "Ð", "Ñ", "Ò", "Ó", "Ô", "Õ", "Ö", "Ø", "Ù", "Ú",
      "Û", "Ü", "Ý", "Þ">>
Lowercase ==
    <<"a", "b", "c", "d", "e", "f", "g", "h", "i", "j", "k", "l", "m",
      "n", "o", "p", "q", "r", "s", "t", "u", "v", "w", "x", "y", "z",
      "à", "á", "â", "ã", "ä", "å", "æ", "ç", "è", "é", "ê", "ë", "ì",
      "í", "î", "ï", "ð", "ñ", "ò", "ó", "ô", "õ", "ö", "ø", "ù", "ú",
      "û", "ü", "ý", "þ">>
Digits == {"0", "1", "2", "3", "4", "5", "6", "7", "8", "9"}
\* the other characters that str.isalnum() holds of, but for DottedI
Uncased ==
    {"ª", "²", "³", "µ", "¹", "º", "¼", "½", "¾", "ß", "ÿ", "U+0131",
     "U+017F"}

\* the one letter whose lower() is two characters, and the second of them
\* (U+0307)
DottedI == "U+0130"
DotAbove == "U+0307"

\* the regex class \w of a str pattern
WordChars ==
    {Uppercase[k] : k \in 1..Len(Uppercase)}
      \cup {Lowercase[k] : k \in 1..Len(Lowercase)}
      \cup Digits \cup Uncased \cup {DottedI, "_"}

WordChar(c) == c \in WordChars

\* c.lower() of the upper-case letters for which it is one character
LowerOf ==
    [u \in {Uppercase[k] : k \in 1..Len(Uppercase)} |->
        Lowercase[CHOOSE k \in 1..Len(Uppercase) : Uppercase[k] = u]]

\* str.lower() of one character
LowerChar(c) ==
    IF c = DottedI THEN <<"i", DotAbove>>
    ELSE IF c \in DOMAIN LowerOf THEN <<LowerOf[c]>>
    ELSE <<c>>

\* str.lower()
RECURSIVE lower(_)
lower(text) ==
    IF Len(text) = 0 THEN <<>>
    ELSE IF Len(text) = 1 THEN LowerChar(text[1])
    ELSE lower(SubSeq(text, 1, Len(text) \div 2))
           \o lower(SubSeq(text, (Len(text) \div 2) + 1, Len(text)))

\* re.IGNORECASE: the characters, other than a lower-case letter of the
\* pattern and the letter it is the lower case of, that the letter matches
CaseFixes ==
    [i |-> {DottedI, "U+0131"}, s |-> {"U+017F"}]

\* the letter of a pattern compiled with re.IGNORECASE matches c
MatchesIgnoreCase(letter, c) ==
    \/ c = letter
    \/ c \in DOMAIN LowerOf /\ LowerOf[c] = letter
    \/ letter \in DOMAIN CaseFixes /\ c \in CaseFixes[letter]

\* the least element of a set of integers that is not empty
Least(S) == CHOOSE i \in S : \A j \in S : i <= j

\* the elements of a finite set of integers in increasing order
Ascending(S) ==
    [k \in 1..Cardinality(S) |->
        CHOOSE i \in S : Cardinality({j \in S : j <= i}) = k]

\* the first index from i on whose character is in chars, Len(text) + 1 if
\* there is none
FirstIn(text, chars, i) ==
    Least({j \in i..Len(text) : text[j] \in chars} \cup {Len(text) + 1})

\* str.split(): the maximal runs of characters that are not whitespace
split(text) ==
    LET starts == Ascending({i \in 1..Len(text) :
                                /\ text[i] \notin Whitespace
                                /\ (i = 1 \/ text[i - 1] \in Whitespace)})
    IN  [k \in 1..Len(starts) |->
            SubSeq(text, starts[k], FirstIn(text, Whitespace, starts[k]) - 1)]

\* ' '.join(words)
RECURSIVE join(_)
join(words) ==
    IF words = <<>> THEN <<>>
    ELSE IF Len(words) = 1 THEN words[1]
    ELSE words[1] \o <<" ">> \o join(Tail(words))

\* the end of the whitespace run that begins at i: the first index after it
SkipWhitespace(text, i) ==
    Least({j \in i..Len(text) : text[j] \notin Whitespace} \cup {Len(text) + 1})

\* re.split(r'(?<=[.!?])\s+', text): the text is cut at every whitespace run
\* that follows a terminal character, and the run is dropped
Sentences(text) ==
    LET cuts == Ascending({i \in 2..Len(text) :
                              /\ text[i] \in Whitespace
                              /\ text[i - 1] \in Terminal})
    IN  [k \in 1..(Len(cuts) + 1) |->
            SubSeq(text,
                   IF k = 1 THEN 1 ELSE SkipWhitespace(text, cuts[k - 1]),
                   IF k <= Len(cuts) THEN cuts[k] - 1 ELSE Len(text))]

\* the words the two nested loops of split_into_segments visit, in order
RECURSIVE SentenceWords(_)
SentenceWords(sentences) ==
    IF sentences = <<>> THEN <<>>
    ELSE split(Head(sentences)) \o SentenceWords(Tail(sentences))

\* the greedy loop with the word that overflows lost instead of opening the
\* next group
RECURSIVE Pack_dropping(_, _, _, _)
Pack_dropping(words, groups, current, limit) ==
    IF words = <<>>
    THEN IF current # <<>> THEN Append(groups, join(current)) ELSE groups
    ELSE LET word == Head(words)
             test_line == join(Append(current, word))
         IN  IF Len(test_line) > limit
             THEN IF current # <<>>
                  THEN Pack_dropping(Tail(words), Append(groups, join(current)),
                                     <<>>, limit)
                  ELSE Pack_dropping(Tail(words), Append(groups, word), <<>>, limit)
             ELSE Pack_dropping(Tail(words), groups, Append(current, word), limit)

\* The greedy loop of split_into_segments, and of the line wrapping of
\* generate_captions_vtt: a word joins the current group while the joined
\* text is not longer than limit; a word that does not fit closes the group
\* and opens the next one, and forms a group of its own if there is none.
RECURSIVE Pack(_, _, _, _)
Pack(words, groups, current, limit) ==
    IF words = <<>>
    THEN IF current # <<>> THEN Append(groups, join(current)) ELSE groups
    ELSE LET word == Head(words)
             test_line == join(Append(current, word))
         IN  IF Len(test_line) > limit
             THEN IF current # <<>>
                  THEN Pack(Tail(words), Append(groups, join(current)),
                            <<word>>, limit)
                  ELSE Pack(Tail(words), Append(groups, word), <<>>, limit)
             ELSE Pack(Tail(words), groups, Append(current, word), limit)

\* default of max_chars_per_line and of max_chars
DefaultMaxChars == 35
\* default of max_lines
DefaultMaxLines == 2

\* split_into_segments with the budget of one line only
split_into_segments_oneline(text, max_chars_per_line, max_lines) ==
    Pack(SentenceWords(Sentences(text)), <<>>, <<>>, max_chars_per_line)

split_into_segments(text, max_chars_per_line, max_lines) ==
    Pack(SentenceWords(Sentences(text)), <<>>, <<>>,
         max_chars_per_line * max_lines)

\* ------------------------------------------------------------ timestamps

MillisPerSecond == 1000
MicrosPerMilli == 1000
SecondsPerMinute == 60
SecondsPerHour == 3600

\* A natural number of any size is the sequence of its digits to the base
\* 2^LimbBits, the least significant first and the most significant not zero.
LimbBits == 15
Base == 2 ^ LimbBits
Pow2 == [k \in 0..LimbBits |-> 2 ^ k]

RECURSIVE Trim(_)
Trim(a) ==
    IF a = <<>> THEN <<>>
    ELSE IF a[Len(a)] = 0 THEN Trim(SubSeq(a, 1, Len(a) - 1))
    ELSE a

RECURSIVE Big(_)
Big(n) == IF n = 0 THEN <<>> ELSE <<n % Base>> \o Big(n \div Base)

RECURSIVE Small(_)
Small(a) == IF a = <<>> THEN 0 ELSE a[1] + Base * Small(Tail(a))

Limb(a, i) == IF i <= Len(a) THEN a[i] ELSE 0

RECURSIVE AddFrom(_, _, _, _)
AddFrom(a, b, i, carry) ==
    IF i > Len(a) /\ i > Len(b)
    THEN IF carry = 0 THEN <<>> ELSE <<carry>>
    ELSE LET s == Limb(a, i) + Limb(b, i) + carry
         IN  <<s % Base>> \o AddFrom(a, b, i + 1, s \div Base)

BigAdd(a, b) == AddFrom(a, b, 1, 0)

RECURSIVE SubFrom(_, _, _, _)
SubFrom(a, b, i, borrow) ==
    IF i > Len(a) THEN <<>>
    ELSE LET d == a[i] - Limb(b, i) - borrow
         IN  IF d < 0 THEN <<d + Base>> \o SubFrom(a, b, i + 1, 1)
             ELSE <<d>> \o SubFrom(a, b, i + 1, 0)

\* a - b for a >= b
BigSub(a, b) == Trim(SubFrom(a, b, 1, 0))

\* -1, 0 or 1 as a is less than, equal to or greater than b
BigCmp(a, b) ==
    IF Len(a) # Len(b) THEN (IF Len(a) < Len(b) THEN -1 ELSE 1)
    ELSE LET differ == {i \in 1..Len(a) : a[i] # b[i]}
         IN  IF differ = {} THEN 0
             ELSE LET k == CHOOSE i \in differ : \A j \in differ : j <= i
                  IN  IF a[k] < b[k] THEN -1 ELSE 1

RECURSIVE MulFrom(_, _, _, _)
MulFrom(a, k, i, carry) ==
    IF i > Len(a) THEN IF carry = 0 THEN <<>> ELSE <<carry>>
    ELSE LET s == a[i] * k + carry
         IN  <<s % Base>> \o MulFrom(a, k, i + 1, s \div Base)

\* a * k for 0 <= k <= Base
BigMul(a, k) == IF k = 0 THEN <<>> ELSE MulFrom(a, k, 1, 0)

RECURSIVE DivFrom(_, _, _, _)
DivFrom(a, n, i, rem) ==
    IF i = 0 THEN [q |-> <<>>, r |-> rem]
    ELSE LET cur == rem * Base + a[i]
             rest == DivFrom(a, n, i - 1, cur % n)
         IN  [q |-> Append(rest.q, cur \div n), r |-> rest.r]

Trimmed(d) == [q |-> Trim(d.q), r |-> d.r]

\* quotient and remainder of a by n, for 0 < n < 2 * Base
BigDiv(a, n) == Trimmed(DivFrom(a, n, Len(a), 0))

\* a * 2^k
Shl(a, k) ==
    IF a = <<>> THEN <<>>
    ELSE [i \in 1..(k \div LimbBits) |-> 0] \o BigMul(a, Pow2[k % LimbBits])

\* a \div 2^k
Shr(a, k) ==
    IF k \div LimbBits >= Len(a) THEN <<>>
    ELSE BigDiv(SubSeq(a, (k \div LimbBits) + 1, Len(a)), Pow2[k % LimbBits]).q

\* the number of binary digits of a
BitLen(a) ==
    IF a = <<>> THEN 0
    ELSE LimbBits * (Len(a) - 1)
           + (CHOOSE k \in 1..LimbBits :
                 Pow2[k - 1] <= a[Len(a)] /\ a[Len(a)] < Pow2[k])

Odd(a) == a # <<>> /\ a[1] % 2 = 1

\* q or q + 1, as c says how what was cut off q compares with a half: -1,
\* 0 or 1 for less, a tie, more
Nearest(q, c) == IF c > 0 \/ (c = 0 /\ Odd(q)) THEN BigAdd(q, <<1>>) ELSE q

\* a / 2^k rounded to the nearest integer, q being a \div 2^k
HalfEven(a, k, q) ==
    Nearest(q, BigCmp(BigSub(a, Shl(q, k)), Shl(<<1>>, k - 1)))

\* a / 2^k rounded to the nearest integer, a tie to the even one
ShrHalfEven(a, k) == IF k = 0 THEN a ELSE HalfEven(a, k, Shr(a, k))

\* n * 2^e rounded to the nearest integer, a tie to the even one
RoundHalfEven(n, e) == IF e >= 0 THEN Shl(n, e) ELSE ShrHalfEven(n, 0 - e)

\* A Python float is an IEEE 754 binary64 number, (-1)^neg * m * 2^e with
\* m = 0 and e = 0, or with m of Mantissa binary digits.  The numbers of the
\* tracks are far from the subnormal range and from overflow.
Mantissa == 53

Zero == [neg |-> FALSE, m |-> <<>>, e |-> 0]

\* (-1)^neg * m * 2^e for a rounded m, which has one binary digit more than
\* Mantissa when the rounding has carried
Carried(neg, m, e) ==
    IF BitLen(m) > Mantissa
    THEN [neg |-> neg, m |-> Shr(m, 1), e |-> e + 1]
    ELSE [neg |-> neg, m |-> m, e |-> e]

\* the float nearest to (-1)^neg * n * 2^e for n of len binary digits
Rounded(neg, n, e, len) ==
    IF len <= Mantissa
    THEN [neg |-> neg, m |-> Shl(n, Mantissa - len), e |-> e - (Mantissa - len)]
    ELSE Carried(neg, ShrHalfEven(n, len - Mantissa), e + (len - Mantissa))

\* the float nearest to (-1)^neg * n * 2^e, a tie to the even mantissa
Float(neg, n, e) == IF n = <<>> THEN Zero ELSE Rounded(neg, n, e, BitLen(n))

Abs(n) == IF n < 0 THEN 0 - n ELSE n

\* float(n) of an int n
FromInt(n) == Float(n < 0, Big(Abs(n)), 0)

\* a quotient cut to an integer, with whether anything has been cut off it
Exact(a) == [q |-> a, inexact |-> FALSE]
Cut(d, inexact) == [q |-> d.q, inexact |-> inexact \/ d.r # 0]

\* c divided by n, 0 < n < 2 * Base
CutDiv(c, n) == Cut(BigDiv(c.q, n), c.inexact)

\* twice c.q, plus one when something was cut off: enough to round by
Sticky(c) == BigAdd(BigMul(c.q, 2), IF c.inexact THEN <<1>> ELSE <<>>)

\* the float nearest to us / 10^6: what the decimal literal of a number of
\* whole microseconds evaluates to, and what timedelta.total_seconds() returns
FromMicrosBig(neg, us) ==
    Float(neg,
          Sticky(CutDiv(CutDiv(Exact(Shl(us, 75)), MillisPerSecond),
                        MicrosPerMilli)),
          -76)

FromMicros(us) == FromMicrosBig(us < 0, Big(Abs(us)))

\* x / n of a float x and an int n, 0 < n < Base
FDivInt(x, n) ==
    IF x.m = <<>> THEN Zero
    ELSE Float(x.neg, Sticky(CutDiv(Exact(Shl(x.m, 17)), n)), x.e - 18)

\* (-1)^xneg * a + (-1)^yneg * b: its sign and its absolute value
Signed(xneg, a, yneg, b) ==
    IF xneg = yneg THEN [neg |-> xneg, n |-> BigAdd(a, b)]
    ELSE IF BigCmp(a, b) >= 0 THEN [neg |-> xneg, n |-> BigSub(a, b)]
    ELSE [neg |-> yneg, n |-> BigSub(b, a)]

\* the float nearest to sum.n * 2^e with the sign of sum
FloatOf(sum, e) == Float(sum.neg, sum.n, e)

\* x + y for x and y other than zero, e being the lesser of their exponents
Aligned(x, y, e) ==
    FloatOf(Signed(x.neg, Shl(x.m, x.e - e), y.neg, Shl(y.m, y.e - e)), e)

\* x + y
FAdd(x, y) ==
    IF x.m = <<>> THEN y
    ELSE IF y.m = <<>> THEN x
    ELSE Aligned(x, y, IF x.e < y.e THEN x.e ELSE y.e)

\* the whole part of |x|, and its fraction in units of 2^x.e
IntPart(x) == IF x.e >= 0 THEN Shl(x.m, x.e) ELSE Shr(x.m, 0 - x.e)
FracPart(x) == IF x.e >= 0 THEN <<>> ELSE BigSub(x.m, Shl(IntPart(x), 0 - x.e))

\* timedelta(seconds=x): |x| in whole microseconds.  The whole seconds are
\* taken exactly; the fraction is multiplied by 1e6 as a float and rounded
\* to the nearest integer, a tie to the even one.
\* round(x) of a float x that is not negative
Round(x) == RoundHalfEven(x.m, x.e)

Microseconds(x) ==
    BigAdd(BigMul(BigMul(IntPart(x), MillisPerSecond), MicrosPerMilli),
           Round(Float(FALSE,
                       BigMul(BigMul(FracPart(x), MillisPerSecond),
                              MicrosPerMilli),
                       x.e)))

\* the float of the sign of x whose whole part is r and whose fraction is
\* the fraction of x
WithFraction(x, r) ==
    IF x.e >= 0 THEN Float(x.neg, r, 0)
    ELSE Float(x.neg, BigAdd(Shl(r, 0 - x.e), FracPart(x)), x.e)

\* math.fmod(x, c) for an int c, 0 < c < Base: exact, with the sign of x
Fmod(x, c) == WithFraction(x, Big(BigDiv(IntPart(x), c).r))

\* the remainder mod of a division by c with the sign of c, which is positive
SignOf(mod, c) ==
    IF mod.m # <<>> /\ mod.neg THEN FAdd(mod, FromInt(c)) ELSE mod

\* x % c: the remainder takes the sign of c
Mod(x, c) == SignOf(Fmod(x, c), c)

\* the floor of a quotient whose absolute value has the whole part q
Floor(q, neg, exact) ==
    IF ~neg THEN q ELSE IF exact THEN 0 - q ELSE 0 - q - 1

\* int(x // c)
FloorDiv(x, c) ==
    Floor(Small(BigDiv(IntPart(x), c).q), x.neg, Fmod(x, c).m = <<>>)

\* td.total_seconds() of the timedelta of us microseconds, negative if neg
total_seconds(neg, us) == FromMicrosBig(neg /\ us # <<>>, us)

\* secs, not negative, as :06.3f writes it, in milliseconds
Millis(secs) == Small(RoundHalfEven(BigMul(secs.m, MillisPerSecond), secs.e))

\* hours, minutes and secs of a timedelta of seconds seconds
Fields(seconds) ==
    [hours |-> FloorDiv(seconds, SecondsPerHour),
     minutes |-> FloorDiv(Mod(seconds, SecondsPerHour), SecondsPerMinute),
     millis |-> Millis(Mod(seconds, SecondsPerMinute))]

\* format_vtt_time: the fields of HH:MM:SS.mmm.  timedelta rounds to whole
\* microseconds; hours and minutes are floor divisions of total_seconds();
\* the format :06.3f rounds the binary value of the seconds left, below 60,
\* to the nearest millisecond, so SS.mmm can read 60.000.  millis is SS.mmm
\* in milliseconds.
format_vtt_time(seconds) ==
    Fields(total_seconds(seconds.neg, Microseconds(seconds)))

\* re.sub(r'<[^>]+>', '', text) from index i on: every "<" followed by at
\* least one character other than ">" and then by ">" is removed with all
\* that is up to that ">"
RECURSIVE StripMarkup(_, _)
StripMarkup(text, i) ==
    LET tags == {j \in i..Len(text) :
                    /\ text[j] = "<"
                    /\ FirstIn(text, {">"}, j + 1) > j + 1
                    /\ FirstIn(text, {">"}, j + 1) <= Len(text)}
    IN  IF tags = {}
        THEN SubSeq(text, i, Len(text))
        ELSE SubSeq(text, i, Least(tags) - 1)
               \o StripMarkup(text, FirstIn(text, {">"}, Least(tags) + 1) + 1)

\* ------------------------------------------------------------ the tracks

WebVtt == "WEBVTT"
TtsNote ==
    <<"NOTE", "TTS instructions for voice synthesis",
      "Duration marks guide audio generation timing">>

RateOpen == <<"<", "r", "a", "t", "e", " ", "s", "l", "o", "w", ">">>
RateClose == <<"<", "/", "r", "a", "t", "e", ">">>
EmphasisOpen ==
    <<"<", "e", "m", "p", "h", "a", "s", "i", "s", " ",
      "s", "t", "r", "o", "n", "g", ">">>
EmphasisClose == <<"<", "/", "e", "m", "p", "h", "a", "s", "i", "s", ">">>

\* the alternatives of the emphasis pattern, in its order
Triggers ==
    << <<"i", "m", "p", "o", "r", "t", "a", "n", "t">>,
       <<"c", "r", "i", "t", "i", "c", "a", "l">>,
       <<"s", "i", "g", "n", "i", "f", "i", "c", "a", "n", "t">>,
       <<"m", "a", "j", "o", "r">> >>

\* word occurs in text at index i
OccursAt(text, word, i) ==
    /\ i >= 1
    /\ i + Len(word) - 1 <= Len(text)
    /\ \A j \in 1..Len(word) : text[i + j - 1] = word[j]

\* the letters of word, a pattern compiled with re.IGNORECASE, match the
\* characters of text from index i on
MatchesAt(text, word, i) ==
    /\ i >= 1
    /\ i + Len(word) - 1 <= Len(text)
    /\ \A j \in 1..Len(word) : MatchesIgnoreCase(word[j], text[i + j - 1])

\* word in lowered, the value of text.lower()
InLower(lowered, word) ==
    \E i \in 1..Len(lowered) : OccursAt(lowered, word, i)

\* the regex assertion \b between the characters i - 1 and i of text
Boundary(text, i) ==
    (i > 1 /\ WordChar(text[i - 1])) # (i <= Len(text) /\ WordChar(text[i]))

\* \b(important|critical|significant|major)\b with re.IGNORECASE tried at
\* index i: the first alternative that matches, 0 if none does
MatchAt(text, i) ==
    LET hits == {k \in 1..Len(Triggers) :
                    /\ MatchesAt(text, Triggers[k], i)
                    /\ Boundary(text, i)
                    /\ Boundary(text, i + Len(Triggers[k]))}
    IN  IF hits = {} THEN 0 ELSE CHOOSE k \in hits : \A j \in hits : k <= j

\* the emphasis pattern matching inside words as well
RECURSIVE Emphasize_substring(_, _)
Emphasize_substring(text, i) ==
    LET hits == {<<j, k>> \in (i..Len(text)) \X (1..Len(Triggers)) :
                    MatchesAt(text, Triggers[k], j)}
    IN  IF hits = {}
        THEN SubSeq(text, i, Len(text))
        ELSE LET j == Least({h[1] : h \in hits})
                 m == Len(Triggers[Least({h[2] : h \in {g \in hits : g[1] = j}})])
             IN  SubSeq(text, i, j - 1)
                   \o EmphasisOpen \o SubSeq(text, j, j + m - 1) \o EmphasisClose
                   \o Emphasize_substring(text, j + m)

\* re.sub of the emphasis pattern from index i on: every match, left to
\* right, is replaced by itself inside the emphasis span
RECURSIVE Emphasize(_, _)
Emphasize(text, i) ==
    LET matches == {j \in i..Len(text) : MatchAt(text, j) # 0}
    IN  IF matches = {}
        THEN SubSeq(text, i, Len(text))
        ELSE LET j == Least(matches)
                 m == Len(Triggers[MatchAt(text, j)])
             IN  SubSeq(text, i, j - 1)
                   \o EmphasisOpen \o SubSeq(text, j, j + m - 1) \o EmphasisClose
                   \o Emphasize(text, j + m)

\* generate_tts_vtt: the text of cue i
TtsText(segment, i) ==
    LET text == IF i = 1 THEN RateOpen \o segment \o RateClose ELSE segment
        lowered == lower(text)
    IN  IF \E k \in 1..Len(Triggers) : InLower(lowered, Triggers[k])
        THEN Emphasize(text, 1)
        ELSE text

\* generate_tts_vtt, the loop from segment i on
RECURSIVE TtsCues(_, _, _, _)
TtsCues(segments, i, current_time, duration_per_segment) ==
    IF i > Len(segments) THEN <<>>
    ELSE LET start_time == current_time
             end_time == FAdd(current_time, duration_per_segment)
         IN  <<[start |-> format_vtt_time(start_time),
                end |-> format_vtt_time(end_time),
                lines |-> <<TtsText(segments[i], i)>>]>>
               \o TtsCues(segments, i + 1, end_time, duration_per_segment)

NoTrack == [error |-> "", header |-> <<>>, cues |-> <<>>]

\* generate_tts_vtt; the division raises when there is no segment
generate_tts_vtt(summary_text, total_duration) ==
    LET segments == split_into_segments(summary_text, DefaultMaxChars,
                                        DefaultMaxLines)
    IN  IF Len(segments) = 0
        THEN [NoTrack EXCEPT !.error = ZeroDivMsg]
        ELSE [error |-> "", header |-> <<WebVtt>> \o TtsNote,
              cues |-> TtsCues(segments, 1, Zero,
                               FDivInt(total_duration, Len(segments)))]

\* generate_captions_vtt: the lines of one cue
WrapLines_budget(segment, max_chars) ==
    Pack(split(segment), <<>>, <<>>, max_chars * DefaultMaxLines)

\* generate_captions_vtt, the inner loop: the words of the segment packed
\* into lines of max_chars
WrapLines(segment, max_chars) == Pack(split(segment), <<>>, <<>>, max_chars)

\* lines[:2]
FirstTwo(lines) == SubSeq(lines, 1, IF Len(lines) < 2 THEN Len(lines) ELSE 2)

\* the loop that never advances current_time: every cue starts at zero
RECURSIVE CaptionCues_restart(_, _, _, _, _)
CaptionCues_restart(segments, i, current_time, duration_per_segment, max_chars) ==
    IF i > Len(segments) THEN <<>>
    ELSE <<[start |-> format_vtt_time(current_time),
            end |-> format_vtt_time(FAdd(current_time, duration_per_segment)),
            lines |-> FirstTwo(WrapLines(segments[i], max_chars))]>>
           \o CaptionCues_restart(segments, i + 1, current_time,
                                  duration_per_segment, max_chars)

\* generate_captions_vtt, the loop from segment i on
RECURSIVE CaptionCues(_, _, _, _, _)
CaptionCues(segments, i, current_time, duration_per_segment, max_chars) ==
    IF i > Len(segments) THEN <<>>
    ELSE LET start_time == current_time
             end_time == FAdd(current_time, duration_per_segment)
         IN  <<[start |-> format_vtt_time(start_time),
                end |-> format_vtt_time(end_time),
                lines |-> FirstTwo(WrapLines(segments[i], max_chars))]>>
               \o CaptionCues(segments, i + 1, end_time, duration_per_segment,
                              max_chars)

\* generate_captions_vtt cutting the text into segments of one line
generate_captions_vtt_oneline(summary_text, total_duration, max_chars) ==
    LET segments == split_into_segments(summary_text, max_chars, 1)
    IN  IF Len(segments) = 0
        THEN [NoTrack EXCEPT !.error = ZeroDivMsg]
        ELSE [error |-> "", header |-> <<WebVtt>>,
              cues |-> CaptionCues(segments, 1, Zero,
                                   FDivInt(total_duration, Len(segments)),
                                   max_chars)]

\* generate_captions_vtt; the division raises when there is no segment
generate_captions_vtt(summary_text, total_duration, max_chars) ==
    LET segments == split_into_segments(summary_text, max_chars, DefaultMaxLines)
    IN  IF Len(segments) = 0
        THEN [NoTrack EXCEPT !.error = ZeroDivMsg]
        ELSE [error |-> "", header |-> <<WebVtt>>,
              cues |-> CaptionCues(segments, 1, Zero,
                                   FDivInt(total_duration, Len(segments)),
                                   max_chars)]

\* ------------------------------------------------------------ the TTS track as a file

\* the elements vtt_lines starts with, as characters
HeaderLines ==
    << <<"W", "E", "B", "V", "T", "T", "\n">>,
       <<"N", "O", "T", "E">>,
       <<"T", "T", "S", " ", "i", "n", "s", "t", "r", "u", "c", "t", "i",
       "o", "n", "s", " ", "f", "o", "r", " ", "v", "o", "i", "c", "e",
       " ", "s", "y", "n", "t", "h", "e", "s", "i", "s">>,
       <<"D", "u", "r", "a", "t", "i", "o", "n", " ", "m", "a", "r", "k",
       "s", " ", "g", "u", "i", "d", "e", " ", "a", "u", "d", "i", "o",
       " ", "g", "e", "n", "e", "r", "a", "t", "i", "o", "n", " ", "t",
       "i", "m", "i", "n", "g", "\n">> >>

DigitChars == <<"0", "1", "2", "3", "4", "5", "6", "7", "8", "9">>

\* the decimal digits of n >= 0, zeros in front up to width characters
RECURSIVE Decimal(_, _)
Decimal(n, width) ==
    IF n < 10
    THEN [i \in 1..(width - 1) |-> "0"] \o <<DigitChars[n + 1]>>
    ELSE Decimal(n \div 10, width - 1) \o <<DigitChars[(n % 10) + 1]>>

\* the string format_vtt_time returns: hours and minutes by the format
\* :02d, where the sign counts for the width, the seconds by :06.3f
TimeText(ts) ==
    (IF ts.hours < 0 THEN <<"-">> \o Decimal(0 - ts.hours, 1)
                     ELSE Decimal(ts.hours, 2))
      \o <<":">> \o Decimal(ts.minutes, 2)
      \o <<":">> \o Decimal(ts.millis \div MillisPerSecond, 2)
      \o <<".">> \o Decimal(ts.millis % MillisPerSecond, 3)

Arrow == <<"-", "-", ">">>

\* '\n'.join(lines)
RECURSIVE JoinLines(_)
JoinLines(lines) ==
    IF lines = <<>> THEN <<>>
    ELSE IF Len(lines) = 1 THEN lines[1]
    ELSE lines[1] \o <<"\n">> \o JoinLines(Tail(lines))

\* the two elements of vtt_lines of each cue from cue i on: the timing line
\* and the text with a newline
RECURSIVE CueLines(_, _)
CueLines(cues, i) ==
    IF i > Len(cues) THEN <<>>
    ELSE <<TimeText(cues[i].start) \o <<" ">> \o Arrow \o <<" ">>
             \o TimeText(cues[i].end),
           cues[i].lines[1] \o <<"\n">> >>
           \o CueLines(cues, i + 1)

\* the string generate_tts_vtt returns, which generate_script writes to
\* tts_script.vtt
TtsFile(track) == JoinLines(HeaderLines \o CueLines(track.cues, 1))

\* f.read().split('\n') of a file opened in text mode: "\r\n" and "\r" are
\* read as "\n".  A line ends at a "\n" and at a "\r" that no "\n" follows,
\* and a "\r" right before the "\n" that ends a line is not part of it.
Lines(content) ==
    LET cuts == Ascending({i \in 1..Len(content) :
                              \/ content[i] = "\n"
                              \/ /\ content[i] = "\r"
                                 /\ (i = Len(content) \/ content[i + 1] # "\n")})
        before(i) == IF content[i] = "\n" /\ i > 1 /\ content[i - 1] = "\r"
                     THEN i - 2 ELSE i - 1
    IN  [k \in 1..(Len(cuts) + 1) |->
            SubSeq(content,
                   IF k = 1 THEN 1 ELSE cuts[k - 1] + 1,
                   IF k <= Len(cuts) THEN before(cuts[k]) ELSE Len(content))]

\* str.strip(): the line from its first to its last character that is not
\* whitespace
strip(line) ==
    LET first == SkipWhitespace(line, 1)
    IN  IF first > Len(line) THEN <<>>
        ELSE SubSeq(line, first,
                    CHOOSE i \in first..Len(line) :
                        /\ line[i] \notin Whitespace
                        /\ \A j \in (i + 1)..Len(line) :
                              line[j] \in Whitespace)

\* '-->' in line
HasArrow(line) == \E j \in 1..Len(line) : OccursAt(line, Arrow, j)

\* parse_vtt_file taking every line that is not blank and holds no arrow
\* for the text of a segment
RECURSIVE ParseLines_all(_, _)
ParseLines_all(lines, i) ==
    IF i > Len(lines) THEN <<>>
    ELSE LET line == strip(lines[i])
         IN  (IF line # <<>> /\ ~HasArrow(line)
              THEN <<[timing |-> <<>>, text |-> line]>>
              ELSE <<>>)
               \o ParseLines_all(lines, i + 1)

\* parse_vtt_file, the loop from line i on.  A line with an arrow opens a
\* segment; the lines after it, up to the first blank line or line with an
\* arrow, are its text, joined by spaces; the line that ends the text is
\* passed over.
RECURSIVE ParseLines(_, _)
ParseLines(lines, i) ==
    IF i > Len(lines) THEN <<>>
    ELSE LET line == strip(lines[i])
         IN  IF HasArrow(line)
             THEN LET stop == Least({j \in (i + 1)..Len(lines) :
                                        \/ strip(lines[j]) = <<>>
                                        \/ HasArrow(lines[j])}
                                    \cup {Len(lines) + 1})
                      text_lines == [k \in 1..(stop - i - 1) |->
                                        strip(lines[i + k])]
                      text == join(text_lines)
                  IN  (IF text # <<>>
                       THEN <<[timing |-> line, text |-> text]>>
                       ELSE <<>>)
                        \o ParseLines(lines, stop + 1)
             ELSE ParseLines(lines, i + 1)

\* parse_vtt_file on the content of the file
parse_vtt_file(content) == ParseLines(Lines(content), 1)

\* generate_audio: the texts of the segments joined by spaces, markup removed
FullText(segments) ==
    StripMarkup(join([i \in 1..Len(segments) |-> segments[i].text]), 1)

\* ------------------------------------------------------------ the manifest

\* current_time = 5.0, in seconds
LeadIn == 5
\* the label of a scene is shown for current_time + 2
LabelSeconds == 2

\* the loop of build_manifest showing the content of a scene as long as its
\* label
RECURSIVE Scenes_labelled(_, _, _, _)
Scenes_labelled(articles_data, i, current_time, article_duration) ==
    IF i > Len(articles_data) THEN <<>>
    ELSE LET article == articles_data[i]
             shown == FAdd(current_time, FromInt(LabelSeconds))
         IN  <<[id |-> article.article_uuid,
                source |-> article.source_name,
                startTime |-> current_time,
                duration |-> article_duration,
                label |-> [text |-> article.source_name,
                           inPoint |-> current_time, outPoint |-> shown],
                content |-> [image |-> article.article_uuid \o "_700x520.png",
                             inPoint |-> current_time, outPoint |-> shown]]>>
               \o Scenes_labelled(articles_data, i + 1,
                                  FAdd(current_time, article_duration),
                                  article_duration)

\* build_manifest, the loop from article i on
RECURSIVE Scenes(_, _, _, _)
Scenes(articles_data, i, current_time, article_duration) ==
    IF i > Len(articles_data) THEN <<>>
    ELSE LET article == articles_data[i]
         IN  <<[id |-> article.article_uuid,
                source |-> article.source_name,
                startTime |-> current_time,
                duration |-> article_duration,
                label |-> [text |-> article.source_name,
                           inPoint |-> current_time,
                           outPoint |-> FAdd(current_time,
                                             FromInt(LabelSeconds))],
                content |-> [image |-> article.article_uuid \o "_700x520.png",
                             inPoint |-> current_time,
                             outPoint |-> FAdd(current_time, article_duration)]]>>
               \o Scenes(articles_data, i + 1,
                         FAdd(current_time, article_duration), article_duration)

\* max(len(articles_data), 1)
AtLeastOne(articles_data) ==
    IF Len(articles_data) > 1 THEN Len(articles_data) ELSE 1

\* build_manifest with the scenes laid out from time zero
build_manifest_nolead(articles_data, total_duration) ==
    [totalDuration |-> total_duration,
     articles |-> Scenes(articles_data, 1, Zero,
                         FDivInt(total_duration, AtLeastOne(articles_data)))]

\* build_manifest: project.totalDuration and the articles list
build_manifest(articles_data, total_duration) ==
    [totalDuration |-> total_duration,
     articles |-> Scenes(articles_data, 1, FromInt(LeadIn),
                         FDivInt(total_duration, AtLeastOne(articles_data)))]

\* ------------------------------------------------------------ calls of the track functions

\* words of a text have at most LongWord characters
LongWord == 66
\* texts have at most MaxWords words
MaxWords == 3
\* article lists have at most MaxSources entries
MaxSources == 3

\* the words texts are made of
Vocabulary ==
    << <<"n", "e", "w", "s">>,
       <<"M", "a", "j", "o", "r">>,
       <<"m", "a", "j", "o", "r", "é">>,
       <<"s", "i", "g", "n", "i", "f", "i", "c", "a", "n", "t", ".">>,
       [i \in 1..LongWord |-> "x"] >>

\* what stands between two words
Separators == {<<" ">>, <<"\r", "\n">>}

\* the narration of the scenario: Breaking news today. Markets fell sharply.
BreakingNews ==
    <<"B", "r", "e", "a", "k", "i", "n", "g", " ", "n", "e", "w", "s",
      " ", "t", "o", "d", "a", "y", ".", " ", "M", "a", "r", "k", "e",
      "t", "s", " ", "f", "e", "l", "l", " ", "s", "h", "a", "r", "p",
      "l", "y", ".">>

RECURSIVE JoinWith(_, _)
JoinWith(words, sep) ==
    IF words = <<>> THEN <<>>
    ELSE IF Len(words) = 1 THEN words[1]
    ELSE words[1] \o sep \o JoinWith(Tail(words), sep)

\* up to MaxWords words a space apart, two words with each separator between
\* them, a separator alone, the narration of the scenario
Texts ==
    {JoinWith([i \in 1..k |-> Vocabulary[ws[i]]], <<" ">>) :
        <<k, ws>> \in
            UNION {{k} \X [1..k -> 1..Len(Vocabulary)] : k \in 0..MaxWords}}
    \cup {JoinWith(<<Vocabulary[a], Vocabulary[b]>>, sep) :
              a \in 1..Len(Vocabulary), b \in 1..Len(Vocabulary),
              sep \in Separators}
    \cup Separators \cup {BreakingNews}

\* total_duration as a decimal number of microseconds: -1.0, 0.0, 0.0004,
\* 10.0, 59.9996
Microsecs == {-1000000, 0, 400, 10000000, 59999600}
\* the float of the literal 0.0004996, which is no whole number of
\* microseconds
BelowHalfMilli ==
    Float(FALSE,
          Sticky(CutDiv(CutDiv(CutDiv(Exact(Shl(Big(4996), 75)),
                                      MillisPerSecond),
                               MicrosPerMilli),
                        10)),
          -76)
WholeMicros == {FromMicros(us) : us \in Microsecs}
Durations == WholeMicros \cup {BelowHalfMilli}

\* max_chars of generate_captions_vtt
CaptionLimits == {10, DefaultMaxChars}

\* the rows articles_data is made of
Articles ==
    {[article_uuid |-> "a1", source_name |-> "Reuters"],
     [article_uuid |-> "a2", source_name |-> "AP"],
     [article_uuid |-> "a3", source_name |-> "Reuters"]}

ArticleLists == UNION {[1..n -> Articles] : n \in 0..MaxSources}

NoJob ==
    [op |-> "", summary_text |-> <<>>, total_duration |-> Zero,
     max_chars |-> DefaultMaxChars, articles_data |-> <<>>, result |-> <<>>]

Jobs ==
    {[NoJob EXCEPT !.summary_text = t, !.total_duration = d, !.max_chars = m] :
        t \in Texts, d \in Durations, m \in CaptionLimits}
    \cup
    {[NoJob EXCEPT !.articles_data = a, !.total_duration = d] :
        a \in ArticleLists, d \in Durations}

\* ------------------------------------------------------------ initial states

InitUsage ==
    {NoUsage} \cup
    {UsageFile([i \in 1..Len(ConfigProjects) |->
                   UsageEntry(ConfigProjects[i], StartNow - age, c[i])]) :
        age \in InitAges, c \in InitLedgers}

InitShared ==
    /\ now = StartNow
    /\ ticks = 0
    /\ requests = 0
    /\ usage \in InitUsage
    /\ db = [s \in Scripts |-> NoRow]
    /\ issued = {}
    /\ disk = [s \in Scripts |-> NoFiles]
    /\ loc = [p \in Procs |-> NoLocals]
    /\ job = NoJob

\* one request at a time
Init ==
    /\ InitShared
    /\ pc = [p \in Procs |-> IF p = "w1" THEN "idle" ELSE "off"]

\* ------------------------------------------------------------ the clock moves

Tick ==
    /\ ticks < MaxTicks
    /\ now' = now + 1
    /\ ticks' = ticks + 1
    /\ UNCHANGED <<requests, usage, db, issued, disk, pc, loc, job>>

\* ------------------------------------------------------------ load_tts_config

\* load_tts_config on the file as it is: the config it returns, or str(e) of
\* the FileNotFoundError it raises and of the JSONDecodeError of json.load
load_tts_config(file) ==
    IF ~file.exists THEN [error |-> NoConfigMsg, config |-> file.config]
    ELSE IF ~file.json THEN [error |-> EmptyFileMsg, config |-> file.config]
    ELSE [error |-> "", config |-> file.config]

\* ------------------------------------------------------------ load_usage_data

LoadReadAt == {"ga_load_read", "ga_upd_read", "ga_stat_read", "us_read"}

AfterRead(l) ==
    CASE l = "ga_load_read" -> "ga_load_save"
      [] l = "ga_upd_read" -> "ga_upd_save"
      [] l = "ga_stat_read" -> "ga_stat_save"
      [] l = "us_read" -> "us_save"

LoadSaveAt == {"ga_load_save", "ga_upd_save", "ga_stat_save", "us_save"}

\* where save_usage_data stands once its open has returned
AfterOpen(l) ==
    CASE l = "ga_load_save" -> "ga_load_dump"
      [] l = "ga_upd_save" -> "ga_upd_dump"
      [] l = "ga_stat_save" -> "ga_stat_dump"
      [] l = "us_save" -> "us_dump"

\* the json.dump of a save_usage_data: of the three load_usage_data of a
\* render, of update_usage itself, of the load_usage_data of the endpoint
SaveDumpAt ==
    {"ga_load_dump", "ga_upd_dump", "ga_add_dump", "ga_stat_dump", "us_dump"}

\* where the caller of save_usage_data goes on
AfterSave(l) ==
    CASE l = "ga_load_dump" -> "ga_select"
      [] l = "ga_upd_dump" -> "ga_upd_add"
      [] l = "ga_add_dump" -> "ga_stat_read"
      [] l = "ga_stat_dump" -> "ga_commit"
      [] l = "us_dump" -> "us_config"

\* str(e) of the JSONDecodeError json.load raises on the file as it is
DecodeMsg == IF usage.size = 0 THEN EmptyFileMsg ELSE ExtraDataMsg

\* an exception inside load_usage_data or load_tts_config: generate_audio
\* handles it in its except clause, get_tts_usage answers with the error
Fail(p, e) ==
    IF pc[p] \in {"us_read", "us_config"}
    THEN /\ loc' = End(p, "raised", e)
         /\ Goto(p, "idle")
    ELSE Raise(p, "ga_except", e)

\* The file is built from the config when it does not exist, and read
\* otherwise.  load_tts_config raises when there is no config to build it
\* from, and json.load raises on a file that is not one JSON document.
LoadRead(p) ==
    /\ pc[p] \in LoadReadAt
    /\ IF ~usage.exists
       THEN \E file \in ConfigFiles :
               IF load_tts_config(file).error # ""
               THEN /\ Fail(p, load_tts_config(file).error)
                    /\ UNCHANGED <<now, ticks>>
               ELSE \E t \in ClockReadings :
                       /\ loc' = [loc EXCEPT ![p].usage = FreshUsage(t),
                                             ![p].fresh = TRUE]
                       /\ now' = t[Len(t)]
                       /\ ticks' = ticks + (t[Len(t)] - now)
                       /\ Goto(p, AfterRead(pc[p]))
       ELSE /\ UNCHANGED <<now, ticks>>
            /\ IF ~usage.json
               THEN Fail(p, DecodeMsg)
               ELSE /\ loc' = [loc EXCEPT ![p].usage = usage.projects,
                                          ![p].fresh = FALSE]
                    /\ Goto(p, AfterRead(pc[p]))
    /\ UNCHANGED <<usage, db, issued, disk>>

\* what load_usage_data saves and returns
Loaded(p) ==
    IF loc[p].fresh THEN loc[p].usage ELSE Rollover(loc[p].usage, now)

\* load_usage_data opening the file only when the rollover loop has changed
\* something
LoadSave_whenDue(p) ==
    /\ pc[p] \in LoadSaveAt
    /\ IF loc[p].fresh \/ Loaded(p) # loc[p].usage
       THEN /\ usage' = Truncated
            /\ loc' = [loc EXCEPT ![p].usage = Loaded(p)]
            /\ Goto(p, AfterOpen(pc[p]))
       ELSE /\ usage' = usage
            /\ loc' = loc
            /\ Goto(p, AfterSave(AfterOpen(pc[p])))
    /\ UNCHANGED <<now, ticks, db, issued, disk>>

\* the rollover loop, then save_usage_data as far as its open(USAGE_FILE,
\* 'w'), which empties the file
LoadSave(p) ==
    /\ pc[p] \in LoadSaveAt
    /\ usage' = Truncated
    /\ loc' = [loc EXCEPT ![p].usage = Loaded(p)]
    /\ Goto(p, AfterOpen(pc[p]))
    /\ UNCHANGED <<now, ticks, db, issued, disk>>

\* save_usage_data: json.dump and the close of the file; the caller goes on
SaveDump(p) ==
    /\ pc[p] \in SaveDumpAt
    /\ usage' = Overwritten(usage, loc[p].usage)
    /\ loc' = loc
    /\ Goto(p, AfterSave(pc[p]))
    /\ UNCHANGED <<now, ticks, db, issued, disk>>

\* GET /api/tts/usage
UsageStats(p) ==
    /\ pc[p] = "idle"
    /\ loc' = Begin(p, "get_tts_usage", "")
    /\ Goto(p, "us_read")
    /\ UNCHANGED <<now, ticks, usage, db, issued, disk>>

\* GET /api/tts/usage after its load_usage_data: config = load_tts_config(),
\* then the answer
UsageConfig(p) ==
    /\ pc[p] = "us_config"
    /\ \E file \in ConfigFiles :
          IF load_tts_config(file).error # ""
          THEN Fail(p, load_tts_config(file).error)
          ELSE /\ loc' = End(p, "returned", "")
               /\ Goto(p, "idle")
    /\ UNCHANGED <<now, ticks, usage, db, issued, disk>>

\* ------------------------------------------------------------ writing a file

\* the directory of script s once name has been opened and written
Written(s, name, value) ==
    [disk EXCEPT ![s] = [@ EXCEPT ![name] = value,
                                  !.unfinished = @ \ {name}]]

\* the directory of script s once name has been opened for writing and the
\* write has raised: open has created the file, or emptied the one there was
Unfinished(s, name) ==
    [disk EXCEPT ![s] = [@ EXCEPT ![name] = NoFiles[name],
                                  !.unfinished = @ \cup {name}]]

\* with open(path, 'w') as f: f.write(...), with outcome w: control goes on
\* at label next, or to the except clause with the OSError
WriteFile(p, name, value, w, next, handler) ==
    CASE w = "written" ->
            /\ disk' = Written(loc[p].sid, name, value)
            /\ Goto(p, next)
            /\ UNCHANGED loc
      [] w = "not_opened" ->
            /\ Raise(p, handler, WriteMsg)
            /\ UNCHANGED disk
      [] w = "unfinished" ->
            /\ disk' = Unfinished(loc[p].sid, name)
            /\ Raise(p, handler, WriteMsg)

\* ------------------------------------------------------------ generate_script

\* The call up to the INSERT.  The argument check raises outside the try
\* block; a lookup that finds nothing raises inside it with script_uuid None,
\* so the except clause rolls back and updates nothing.  Otherwise the INSERT
\* puts the pending row in the open transaction and returns a new script_uuid.
GS_Call(p) ==
    /\ pc[p] = "idle"
    /\ \E l \in Lookups, t \in SummaryLens :
          IF l # "ok"
          THEN /\ loc' = [loc EXCEPT ![p] =
                            [NoLocals EXCEPT !.op = "generate_script",
                                             !.result = "raised",
                                             !.e = LookupMsg(l)]]
               /\ UNCHANGED <<pc, issued>>
          ELSE \E s \in {NewUuid} \cap Scripts :
                  /\ issued' = issued \cup {s}
                  /\ loc' = [loc EXCEPT ![p] =
                               [NoLocals EXCEPT !.op = "generate_script",
                                                !.sid = s, !.text = t,
                                                !.txn = TRUE]]
                  /\ Goto(p, "gs_manifest")
    /\ UNCHANGED <<now, ticks, usage, db, disk>>

\* mkdir, build_manifest, manifest.json written.  A mkdir that raises leaves
\* what an open that raises leaves; build_manifest raises the KeyError on a
\* template config without the keys it reads.
GS_Manifest(p) ==
    /\ pc[p] = "gs_manifest"
    /\ \E built \in BOOLEAN, w \in WriteOutcomes :
          IF built
          THEN WriteFile(p, "manifest", TRUE, w, "gs_tts", "gs_except")
          ELSE /\ Raise(p, "gs_except", TemplateConfigMsg)
               /\ UNCHANGED disk
    /\ UNCHANGED <<now, ticks, usage, db, issued>>

\* generate_tts_vtt divides total_duration by the segment count, which is 0
\* for a text without words; then tts_script.vtt is written
GS_Tts(p) ==
    /\ pc[p] = "gs_tts"
    /\ IF loc[p].text = 0
       THEN /\ Raise(p, "gs_except", ZeroDivMsg)
            /\ UNCHANGED disk
       ELSE \E w \in WriteOutcomes :
               WriteFile(p, "tts", loc[p].text, w, "gs_captions", "gs_except")
    /\ UNCHANGED <<now, ticks, usage, db, issued>>

\* generate_captions_vtt, captions.vtt written
GS_Captions(p) ==
    /\ pc[p] = "gs_captions"
    /\ \E w \in WriteOutcomes :
          WriteFile(p, "captions", TRUE, w, "gs_metadata", "gs_except")
    /\ UNCHANGED <<now, ticks, usage, db, issued>>

\* metadata.json written; json.dump raises the TypeError, part of the file
\* written, on an article row with a value it cannot serialise
GS_Metadata(p) ==
    /\ pc[p] = "gs_metadata"
    /\ \E serializable \in BOOLEAN, w \in WriteOutcomes :
          IF serializable \/ w = "not_opened"
          THEN WriteFile(p, "metadata", TRUE, w, "gs_commit", "gs_except")
          ELSE /\ disk' = Unfinished(loc[p].sid, "metadata")
               /\ Raise(p, "gs_except", NotSerializableMsg)
    /\ UNCHANGED <<now, ticks, usage, db, issued>>

\* the UPDATE to generated and the commit: the row becomes visible
GS_Commit(p) ==
    /\ pc[p] = "gs_commit"
    /\ db' = [db EXCEPT ![loc[p].sid] = GeneratedRow(PendingRow, loc[p].sid)]
    /\ loc' = End(p, "returned", "")
    /\ Goto(p, "idle")
    /\ UNCHANGED <<now, ticks, usage, issued, disk>>

\* except: conn.rollback() discards the open transaction, the INSERT with
\* it; the UPDATE to failed then runs against the committed table
GS_Except(p) ==
    /\ pc[p] = "gs_except"
    /\ db' = MarkFailed(db, loc[p].sid, loc[p].e)
    /\ loc' = End(p, "raised", loc[p].e)
    /\ Goto(p, "idle")
    /\ UNCHANGED <<now, ticks, usage, issued, disk>>

\* ------------------------------------------------------------ generate_audio

\* the call, for any script_uuid and either kind of audio_params
GA_Call(p) ==
    /\ pc[p] = "idle"
    /\ \E s \in Scripts, a \in AudioParams :
          loc' = [loc EXCEPT ![p] =
                     [NoLocals EXCEPT !.op = "generate_audio", !.sid = s,
                                      !.audio_params = a]]
    /\ Goto(p, "ga_read")
    /\ UNCHANGED <<now, ticks, usage, db, issued, disk>>

\* the track file named by the row, as parse_vtt_file opens it
TrackOnDisk(s) == db[s].tts_vtt_path = TtsPath(s) /\ disk[s].tts >= 0

\* SELECT tts_vtt_path, parse_vtt_file, markup stripped: full_text
GA_Read(p) ==
    /\ pc[p] = "ga_read"
    /\ LET s == loc[p].sid
       IN  IF ~db[s].exists
           THEN Raise(p, "ga_except", NotFoundMsg)
           ELSE IF ~TrackOnDisk(s)
           THEN Raise(p, "ga_except", NoTrackMsg)
           ELSE /\ loc' = [loc EXCEPT ![p].full_len = disk[s].tts]
                /\ Goto(p, "ga_config")
    /\ UNCHANGED <<now, ticks, usage, db, issued, disk>>

\* config = load_tts_config(), before the usage is loaded
GA_Config(p) ==
    /\ pc[p] = "ga_config"
    /\ \E file \in ConfigFiles :
          IF load_tts_config(file).error # ""
          THEN Raise(p, "ga_except", load_tts_config(file).error)
          ELSE /\ loc' = [loc EXCEPT ![p].config = load_tts_config(file).config]
               /\ Goto(p, "ga_load_read")
    /\ UNCHANGED <<now, ticks, usage, db, issued, disk>>

\* generate_audio waiting at the selection until some project has quota
GA_Select_wait(p) ==
    /\ pc[p] = "ga_select"
    /\ LET i == select_project(loc[p].config, loc[p].usage)
       IN  IF i = 0
           THEN UNCHANGED <<pc, loc>>
           ELSE /\ loc' = [loc EXCEPT
                             ![p].selected_id = loc[p].usage[i].project_id]
                /\ Goto(p, "ga_synth")
    /\ UNCHANGED <<now, ticks, usage, db, issued, disk>>

\* the projects that another execution has selected and not yet recorded
\* usage for
Held(p) ==
    {loc[q].selected_id :
        q \in {r \in Procs \ {p} :
                  pc[r] \in {"ga_synth", "ga_open", "ga_write", "ga_upd_read",
                             "ga_upd_save", "ga_upd_dump", "ga_upd_add",
                             "ga_add_dump"}}}

\* generate_audio refusing a project that another execution holds
GA_Select_exclusive(p) ==
    /\ pc[p] = "ga_select"
    /\ LET i == select_project(loc[p].config, loc[p].usage)
       IN  IF i = 0 \/ (i # 0 /\ loc[p].usage[i].project_id \in Held(p))
           THEN Raise(p, "ga_except", QuotaMsg)
           ELSE /\ loc' = [loc EXCEPT
                             ![p].selected_id = loc[p].usage[i].project_id]
                /\ Goto(p, "ga_synth")
    /\ UNCHANGED <<now, ticks, usage, db, issued, disk>>

\* select_project on the config and the usage loaded
GA_Select(p) ==
    /\ pc[p] = "ga_select"
    /\ LET i == select_project(loc[p].config, loc[p].usage)
       IN  IF i = 0
           THEN Raise(p, "ga_except", QuotaMsg)
           ELSE /\ loc' = [loc EXCEPT
                             ![p].selected_id = loc[p].usage[i].project_id]
                /\ Goto(p, "ga_synth")
    /\ UNCHANGED <<now, ticks, usage, db, issued, disk>>

\* the request is built from audio_params, whose .get a str does not have;
\* then client.synthesize_speech returns a response or raises
GA_Synth(p) ==
    /\ pc[p] = "ga_synth"
    /\ IF loc[p].audio_params = "str"
       THEN Raise(p, "ga_except", NoGetMsg)
       ELSE \E ok \in BOOLEAN :
               IF ok
               THEN \E n \in AudioLens :
                       /\ loc' = [loc EXCEPT ![p].audio_len = n]
                       /\ Goto(p, "ga_open")
               ELSE Raise(p, "ga_except", SynthMsg)
    /\ UNCHANGED <<now, ticks, usage, db, issued, disk>>

\* the directory of script s once open(audio_path, 'wb') has created
\* audio.mp3, or emptied the one there was
AudioOpened(s) ==
    [disk EXCEPT ![s] = [@ EXCEPT !.audio = FALSE, !.audio_size = 0,
                                  !.unfinished = @ \cup {"audio"}]]

\* the directory of script s once n bytes have been written through a handle
\* that stands at offset 0: they replace the first n bytes of what the file
\* holds by then, and what is there beyond them stays
AudioWritten(s, n) ==
    IF n >= disk[s].audio_size
    THEN [disk EXCEPT ![s] = [@ EXCEPT !.audio = TRUE, !.audio_size = n,
                                       !.unfinished = @ \ {"audio"}]]
    ELSE [disk EXCEPT ![s] = [@ EXCEPT !.audio = FALSE,
                                       !.unfinished = @ \cup {"audio"}]]

\* the directory of script s once a write through a handle that stands at
\* offset 0 has failed with k bytes of the response in the file: nothing has
\* changed for k = 0, and the bytes are there and are no audio otherwise
AudioCutShort(s, k) ==
    IF k = 0 THEN disk
    ELSE [disk EXCEPT ![s] = [@ EXCEPT !.audio = FALSE,
                                       !.audio_size = IF k > @ THEN k ELSE @,
                                       !.unfinished = @ \cup {"audio"}]]

\* output_dir.mkdir and open(audio_path, 'wb'), which raise or leave the
\* file empty
GA_Open(p) ==
    /\ pc[p] = "ga_open"
    /\ \E opened \in BOOLEAN :
          IF opened
          THEN /\ disk' = AudioOpened(loc[p].sid)
               /\ Goto(p, "ga_write")
               /\ UNCHANGED loc
          ELSE /\ Raise(p, "ga_except", WriteMsg)
               /\ UNCHANGED disk
    /\ UNCHANGED <<now, ticks, usage, db, issued>>

\* audio.mp3 written and the record marked audio_ready in the same step,
\* before the usage is recorded
GA_Write_marking(p) ==
    /\ pc[p] = "ga_write"
    /\ \E written \in BOOLEAN :
          IF written
          THEN /\ disk' = AudioWritten(loc[p].sid, loc[p].audio_len)
               /\ db' = MarkAudioReady(db, loc[p].sid, AudioPath(loc[p].sid))
               /\ Goto(p, "ga_upd_read")
               /\ UNCHANGED loc
          ELSE /\ Raise(p, "ga_except", WriteMsg)
               /\ \E k \in {j \in CutLens : j < loc[p].audio_len} :
                     disk' = AudioCutShort(loc[p].sid, k)
               /\ UNCHANGED db
    /\ UNCHANGED <<now, ticks, usage, issued>>

\* out.write(response.audio_content) and the close of the file, which write
\* the response, or raise with a part of it in the file
GA_Write(p) ==
    /\ pc[p] = "ga_write"
    /\ \E written \in BOOLEAN :
          IF written
          THEN /\ disk' = AudioWritten(loc[p].sid, loc[p].audio_len)
               /\ Goto(p, "ga_upd_read")
               /\ UNCHANGED loc
          ELSE /\ Raise(p, "ga_except", WriteMsg)
               /\ \E k \in {j \in CutLens : j < loc[p].audio_len} :
                     disk' = AudioCutShort(loc[p].sid, k)
    /\ UNCHANGED <<now, ticks, usage, db, issued>>

\* update_usage adding the delta to what the file holds at that moment and
\* saving it in the same step
GA_UpdAdd_atomic(p) ==
    /\ pc[p] = "ga_upd_add"
    /\ usage' = UsageFile(AddUsage(IF usage.json THEN usage.projects
                                                 ELSE loc[p].usage,
                                   loc[p].selected_id, loc[p].full_len))
    /\ loc' = [loc EXCEPT ![p].usage = usage'.projects]
    /\ Goto(p, "ga_stat_read")
    /\ UNCHANGED <<now, ticks, db, issued, disk>>

\* update_usage after its load_usage_data: the delta added to the usage
\* loaded, then save_usage_data as far as its open
GA_UpdAdd(p) ==
    /\ pc[p] = "ga_upd_add"
    /\ usage' = Truncated
    /\ loc' = [loc EXCEPT ![p].usage = AddUsage(loc[p].usage,
                                                loc[p].selected_id,
                                                loc[p].full_len)]
    /\ Goto(p, "ga_add_dump")
    /\ UNCHANGED <<now, ticks, db, issued, disk>>

\* chars_remaining = config["safety_limit"] - ..., which raises the KeyError
\* on a config without the key; then the UPDATE to audio_ready, the commit
\* and the return
GA_Commit(p) ==
    /\ pc[p] = "ga_commit"
    /\ IF "safety_limit" \in DOMAIN loc[p].config
       THEN /\ db' = MarkAudioReady(db, loc[p].sid, AudioPath(loc[p].sid))
            /\ loc' = End(p, "returned", "")
            /\ Goto(p, "idle")
       ELSE /\ Raise(p, "ga_except", NoLimitMsg)
            /\ UNCHANGED db
    /\ UNCHANGED <<now, ticks, usage, issued, disk>>

\* except leaving a record that is audio_ready as it is
GA_Except_keeping(p) ==
    /\ pc[p] = "ga_except"
    /\ db' = IF db[loc[p].sid].status = "audio_ready"
             THEN db
             ELSE MarkFailed(db, loc[p].sid, loc[p].e)
    /\ loc' = End(p, "raised", loc[p].e)
    /\ Goto(p, "idle")
    /\ UNCHANGED <<now, ticks, usage, issued, disk>>

\* except: rollback, the UPDATE to failed with str(e), commit, re-raise
GA_Except(p) ==
    /\ pc[p] = "ga_except"
    /\ db' = MarkFailed(db, loc[p].sid, loc[p].e)
    /\ loc' = End(p, "raised", loc[p].e)
    /\ Goto(p, "idle")
    /\ UNCHANGED <<now, ticks, usage, issued, disk>>

\* ------------------------------------------------------------ specification

\* An execution that is idle accepts a request, which is counted, and one
\* that is serving a request takes the next step of it.
Accept(p, bound) ==
    IF pc[p] = "idle"
    THEN requests < bound /\ requests' = requests + 1
    ELSE requests' = requests

Step(p) ==
    /\ Accept(p, MaxRequests)
    /\ \/ GS_Call(p) \/ GS_Manifest(p) \/ GS_Tts(p) \/ GS_Captions(p)
       \/ GS_Metadata(p) \/ GS_Commit(p) \/ GS_Except(p)
       \/ GA_Call(p) \/ GA_Read(p) \/ GA_Config(p) \/ GA_Select(p)
       \/ GA_Synth(p) \/ GA_Open(p) \/ GA_Write(p) \/ GA_UpdAdd(p)
       \/ GA_Commit(p) \/ GA_Except(p)
       \/ UsageStats(p) \/ UsageConfig(p)
       \/ LoadRead(p) \/ LoadSave(p) \/ SaveDump(p)
    /\ UNCHANGED job

Next == Tick \/ \E p \in Procs : Step(p)

Spec == Init /\ [][Next]_vars

\* ------------------------------------------------------------ the track functions called

\* one call of a track or manifest function on arguments drawn beforehand;
\* no request is being served
TrackInit ==
    /\ now = StartNow
    /\ ticks = 0
    /\ requests = 0
    /\ usage = NoUsage
    /\ db = [s \in Scripts |-> NoRow]
    /\ issued = {}
    /\ disk = [s \in Scripts |-> NoFiles]
    /\ loc = [p \in Procs |-> NoLocals]
    /\ pc = [p \in Procs |-> "off"]
    /\ job \in Jobs

\* segments = split_into_segments(text, max_chars), which takes no duration:
\* it is called once for each text and limit
CallSplit ==
    /\ job.op = ""
    /\ job.total_duration = Zero
    /\ job.articles_data = <<>>
    /\ job' = [job EXCEPT !.op = "split_into_segments",
                          !.result =
                              [error |-> "",
                               segments |->
                                   split_into_segments(job.summary_text,
                                                       job.max_chars,
                                                       DefaultMaxLines)]]
    /\ UNCHANGED <<now, ticks, requests, usage, db, issued, disk, pc, loc>>

\* tts_vtt = generate_tts_vtt(summary_text, total_duration), which takes no
\* limit: it is called once for each text and duration
CallTts ==
    /\ job.op = ""
    /\ job.max_chars = DefaultMaxChars
    /\ job.articles_data = <<>>
    /\ job' = [job EXCEPT !.op = "generate_tts_vtt",
                          !.result = generate_tts_vtt(job.summary_text,
                                                      job.total_duration)]
    /\ UNCHANGED <<now, ticks, requests, usage, db, issued, disk, pc, loc>>

\* captions_vtt = generate_captions_vtt(summary_text, total_duration, max_chars)
CallCaptions ==
    /\ job.op = ""
    /\ job.articles_data = <<>>
    /\ job' = [job EXCEPT !.op = "generate_captions_vtt",
                          !.result = generate_captions_vtt(job.summary_text,
                                                           job.total_duration,
                                                           job.max_chars)]
    /\ UNCHANGED <<now, ticks, requests, usage, db, issued, disk, pc, loc>>

\* manifest = build_manifest(..., articles_data, ..., total_duration), whose
\* scenes take nothing from the text: it is called once for each list of
\* articles and duration
CallManifest ==
    /\ job.op = ""
    /\ job.summary_text = <<>>
    /\ job.max_chars = DefaultMaxChars
    /\ job' = [job EXCEPT !.op = "build_manifest",
                          !.result = build_manifest(job.articles_data,
                                                    job.total_duration)]
    /\ UNCHANGED <<now, ticks, requests, usage, db, issued, disk, pc, loc>>

\* generate_script writes the TTS track and generate_audio reads it back:
\* segments = parse_vtt_file(vtt_path), then full_text.  The track is built
\* with the default limits, whatever the limit of the captions.
CallParse ==
    /\ job.op = ""
    /\ job.max_chars = DefaultMaxChars
    /\ job.articles_data = <<>>
    /\ job' = [job EXCEPT
                 !.op = "parse_vtt_file",
                 !.result =
                     LET track == generate_tts_vtt(job.summary_text,
                                                   job.total_duration)
                         segments == parse_vtt_file(TtsFile(track))
                     IN  IF track.error # ""
                         THEN [error |-> track.error, segments |-> <<>>,
                               full_text |-> <<>>]
                         ELSE [error |-> "", segments |-> segments,
                               full_text |-> FullText(segments)]]
    /\ UNCHANGED <<now, ticks, requests, usage, db, issued, disk, pc, loc>>

TrackNext == CallSplit \/ CallTts \/ CallCaptions \/ CallManifest \/ CallParse

TrackSpec == TrackInit /\ [][TrackNext]_vars

\* ------------------------------------------------------------ concurrent requests

\* chars_used of the projects when two requests are served at once
ConcLedger == <<800, 900>>

\* The application starts on what earlier runs have left: the first n
\* scripts generated, a usage file of the current month.  Two request-scoped
\* executions are ready to serve a request each.
ConcInit ==
    /\ now = StartNow
    /\ ticks = 0
    /\ requests = 0
    /\ usage = UsageFile([i \in 1..Len(ConfigProjects) |->
                             UsageEntry(ConfigProjects[i], StartNow,
                                        ConcLedger[i])])
    /\ \E n \in 1..Len(ScriptSeq), t \in SummaryLens \ {0} :
          LET generated == {ScriptSeq[i] : i \in 1..n}
          IN  /\ issued = generated
              /\ db = [s \in Scripts |->
                          IF s \in generated
                          THEN GeneratedRow(PendingRow, s) ELSE NoRow]
              /\ disk = [s \in Scripts |->
                            IF s \in generated
                            THEN [manifest |-> TRUE, tts |-> t,
                                  captions |-> TRUE, metadata |-> TRUE,
                                  audio |-> FALSE, audio_size |-> 0,
                                  unfinished |-> {}]
                            ELSE NoFiles]
    /\ loc = [p \in Procs |-> NoLocals]
    /\ pc = [p \in Procs |-> "idle"]
    /\ job = NoJob

\* a step of a render or of the usage statistics endpoint; nothing orders
\* the steps of one execution against the steps of the other
ConcStep(p) ==
    /\ Accept(p, MaxConcurrent)
    /\ \/ GA_Call(p) \/ GA_Read(p) \/ GA_Config(p) \/ GA_Select(p)
       \/ GA_Synth(p) \/ GA_Open(p) \/ GA_Write(p) \/ GA_UpdAdd(p)
       \/ GA_Commit(p) \/ GA_Except(p)
       \/ UsageStats(p) \/ UsageConfig(p)
       \/ LoadRead(p) \/ LoadSave(p) \/ SaveDump(p)
    /\ UNCHANGED job

ConcNext == \E p \in Procs : ConcStep(p)

ConcSpec == ConcInit /\ [][ConcNext]_vars

\* ------------------------------------------------------------ helpers of the properties

\* the chars_used column of a usage list
Chars(projects) == [i \in 1..Len(projects) |-> projects[i].chars_used]

\* worker p is inside the named function
Inside(p, op) == loc[p].op = op /\ pc[p] # "idle"

\* worker p leaves label l in this step
Leaves(p, l) == pc[p] = l /\ pc'[p] # l

\* ------------------------------------------------------------ the quota ledger

\* C1: starting from a ledger with every chars_used <= safety_limit, after
\* any sequence of renders every persisted chars_used is <= safety_limit.
C1_NeverOverdrawn ==
    usage.exists =>
        \A i \in 1..Len(usage.projects) :
            usage.projects[i].chars_used <= SafetyLimit

\* C2: select_project returns only a project with chars_used < safety_limit;
\* when every loaded project is at or above the limit the selection raises
\* the quota error, control goes to the except clause and from there to the
\* caller (no synthesis call), and the usage file is not written.
C2_SelectBelowLimit ==
    [][\A p \in Procs :
        /\ Leaves(p, "ga_select") =>
              LET config == loc[p].config
              IN  IF \A i \in 1..Len(loc[p].usage) :
                        loc[p].usage[i].chars_used >= safety_limit(config)
                  THEN /\ pc'[p] = "ga_except"
                       /\ loc'[p].e = QuotaMsg
                       /\ loc'[p].selected_id = ""
                       /\ usage' = usage
                  ELSE /\ pc'[p] = "ga_synth"
                       /\ loc'[p].config = config
                       /\ \E i \in 1..Len(loc[p].usage) :
                             /\ loc[p].usage[i].project_id = loc'[p].selected_id
                             /\ loc[p].usage[i].chars_used < safety_limit(config)
        /\ (Leaves(p, "ga_except") /\ loc[p].e = QuotaMsg) =>
              /\ pc'[p] = "idle"
              /\ loc'[p].result = "raised"
              /\ usage' = usage]_vars

\* a render has ended with the quota error while every project is at the limit
C2_Witness ==
    \E p \in Procs :
        /\ pc[p] = "idle"
        /\ loc[p].op = "generate_audio"
        /\ loc[p].result = "raised"
        /\ loc[p].e = QuotaMsg
        /\ usage.exists
        /\ \A i \in 1..Len(usage.projects) :
              usage.projects[i].chars_used >= SafetyLimit

\* C3: with safety_limit 1000 and projects at 800 and 999, a render of 150
\* characters selects the 800 project and leaves it at 950; the next render
\* of 150 characters finds {950, 999} and fails with the quota error,
\* selecting nothing.
C3_Scenario ==
    [][\A p \in Procs :
        (SafetyLimit = 1000 /\ loc[p].full_len = 150) =>
          /\ (Leaves(p, "ga_select") /\ Chars(loc[p].usage) = <<800, 999>>) =>
                pc'[p] = "ga_synth" /\ loc'[p].selected_id = "A"
          /\ (Leaves(p, "ga_upd_add") /\ Chars(loc[p].usage) = <<800, 999>>) =>
                Chars(loc'[p].usage) = <<950, 999>>
          /\ (Leaves(p, "ga_add_dump") /\ Chars(loc[p].usage) = <<950, 999>>) =>
                usage'.json /\ Chars(usage'.projects) = <<950, 999>>
          /\ (Leaves(p, "ga_select") /\ Chars(loc[p].usage) = <<950, 999>>) =>
                \/ /\ pc'[p] = "ga_except"
                   /\ loc'[p].e = QuotaMsg
                   /\ loc'[p].selected_id = ""
                \/ "safety_limit" \notin DOMAIN loc'[p].config]_vars

\* C4: every read of the ledger resets each project whose stored period is
\* an earlier calendar month than the current one (of this or an earlier
\* year) to chars_used 0 and the current period, persists that before the
\* usage is returned, and leaves a project of the current period as it is.
C4_RolloverOnRead ==
    [][\A p \in Procs :
        /\ (pc[p] \in LoadSaveAt /\ pc'[p] # pc[p] /\ ~loc[p].fresh) =>
              /\ pc'[p] = AfterOpen(pc[p])
              /\ Len(loc'[p].usage) = Len(loc[p].usage)
              /\ \A i \in 1..Len(loc[p].usage) :
                    IF loc[p].usage[i].period < now
                    THEN /\ loc'[p].usage[i].chars_used = 0
                         /\ loc'[p].usage[i].period = now
                         /\ loc'[p].usage[i].month = CurrentMonth(now)
                    ELSE loc'[p].usage[i] = loc[p].usage[i]
        /\ (pc[p] \in SaveDumpAt /\ pc'[p] # pc[p]) =>
              /\ usage'.json
              /\ usage'.projects = loc[p].usage
              /\ (pc'[p] # "idle" => loc'[p].usage = usage'.projects)]_vars

\* ------------------------------------------------------------ the Generation record

\* the status changes the state machine of the record allows
AllowedChanges ==
    {<<"pending", "generated">>, <<"generated", "audio_ready">>,
     <<"pending", "failed">>, <<"generated", "failed">>}

\* C5: the status of a record changes only along pending->generated,
\* generated->audio_ready, pending->failed, generated->failed; so failed is
\* never left and audio_ready is entered only from generated and never left.
C5_StatusMachine ==
    [][\A s \in Scripts :
        (db[s].exists /\ db'[s].exists /\ db'[s].status # db[s].status) =>
            <<db[s].status, db'[s].status>> \in AllowedChanges]_vars

\* C6: when generate_script raises after its INSERT has returned a
\* script_uuid, the persisted record exists with status failed, holds the
\* error message verbatim and references no track and no manifest.
C6_FailedBuildRecorded ==
    \A p \in Procs :
        (/\ pc[p] = "idle"
         /\ loc[p].op = "generate_script"
         /\ loc[p].result = "raised"
         /\ loc[p].sid # "") =>
            /\ db[loc[p].sid].exists
            /\ db[loc[p].sid].status = "failed"
            /\ db[loc[p].sid].error_message = loc[p].e
            /\ db[loc[p].sid].tts_vtt_path = ""
            /\ db[loc[p].sid].captions_vtt_path = ""
            /\ db[loc[p].sid].manifest_json = "{}"

\* C7 as stated: a failure during audio rendering of a record whose status
\* is generated leaves its status generated.
C7_FailureKeepsGenerated ==
    [][\A p \in Procs :
        (Leaves(p, "ga_except") /\ db[loc[p].sid].status = "generated") =>
            db'[loc[p].sid].status = "generated"]_vars

\* C7 as amended: a failure during audio rendering of a record whose status
\* is generated sets its status to failed with the error message; the record
\* is not removed and does not go back to pending.
C7_FailureSetsFailed ==
    [][\A p \in Procs :
        (Leaves(p, "ga_except") /\ db[loc[p].sid].status = "generated") =>
            /\ db'[loc[p].sid].exists
            /\ db'[loc[p].sid].status = "failed"
            /\ db'[loc[p].sid].error_message = loc[p].e
            /\ loc'[p].result = "raised"]_vars

\* a render of a generated record is in its except clause
C7_Witness ==
    \E p \in Procs :
        /\ pc[p] = "ga_except"
        /\ db[loc[p].sid].exists
        /\ db[loc[p].sid].status = "generated"
        /\ loc[p].e \in {QuotaMsg, SynthMsg, WriteMsg}

\* C8: no step of generate_audio changes the TTS track path, the captions
\* track path or the manifest of any record, nor the track and manifest
\* files; of the record it was called for it writes at most status,
\* error_message and audio_file_path.
C8_AudioKeepsArtifacts ==
    [][\A p \in Procs :
        (Inside(p, "generate_audio") /\ (pc'[p] # pc[p] \/ loc'[p] # loc[p])) =>
            \A s \in Scripts :
                /\ db'[s].exists = db[s].exists
                /\ db'[s].tts_vtt_path = db[s].tts_vtt_path
                /\ db'[s].captions_vtt_path = db[s].captions_vtt_path
                /\ db'[s].manifest_json = db[s].manifest_json
                /\ disk'[s].tts = disk[s].tts
                /\ disk'[s].captions = disk[s].captions
                /\ disk'[s].manifest = disk[s].manifest
                /\ disk'[s].unfinished \ {"audio"} = disk[s].unfinished \ {"audio"}
                /\ (s # loc[p].sid => db'[s] = db[s] /\ disk'[s] = disk[s])]_vars

\* a render has failed and the record still references its track on disk
C8_Witness ==
    \E s \in Scripts :
        /\ db[s].status = "failed"
        /\ db[s].error_message # ""
        /\ db[s].tts_vtt_path = TtsPath(s)
        /\ db[s].captions_vtt_path = CaptionsPath(s)
        /\ db[s].manifest_json = ManifestJson(s)
        /\ disk[s].tts > 0

\* C9: audio rendering can be retried without rebuilding tracks or manifest:
\* for a record in status generated or failed (or audio_ready) whose track
\* is on disk, the read of the track succeeds whatever the status, and a
\* call whose selection, synth call and audio write succeeded ends with
\* status audio_ready and the audio locator of the record, the same one at
\* every repetition.
C9_RetryAudio ==
    [][\A p \in Procs :
        LET s == loc[p].sid
        IN  /\ (Leaves(p, "ga_read") /\ db[s].exists /\ TrackOnDisk(s)
                   /\ db[s].status \in {"generated", "failed", "audio_ready"}) =>
                  pc'[p] = "ga_config"
            /\ (pc[p] \in {"ga_upd_read", "ga_upd_save", "ga_upd_dump",
                           "ga_upd_add", "ga_add_dump", "ga_stat_read",
                           "ga_stat_save", "ga_stat_dump"}) =>
                  pc'[p] # "ga_except"
            /\ (Leaves(p, "ga_commit") /\ db[s].exists) =>
                  /\ pc'[p] = "idle"
                  /\ loc'[p].result = "returned"
                  /\ db'[s].status = "audio_ready"
                  /\ db'[s].audio_file_path = AudioPath(s)
                  /\ (db[s].status = "audio_ready" =>
                        db'[s].audio_file_path = db[s].audio_file_path)]_vars

\* ------------------------------------------------------------ termination

\* The steps of a call once it has begun.  A request handler of api.py runs
\* generate_script, generate_audio or the usage functions to their return or
\* their exception, so a call in progress takes its next step.  A worker
\* that is idle, or is not serving in this specification, is in no call:
\* its next step is the arrival of a request, which only a client brings
\* about and which is no step of Continue.
Continue(p) == pc[p] \notin {"idle", "off"} /\ Step(p)

\* Every call is a synchronous sequence of blocking steps, each of which
\* completes or raises: a call that has begun keeps taking steps.
FairSpec == Init /\ [][Next]_vars /\ \A p \in Procs : WF_vars(Continue(p))

\* C10: every generate_audio call on an existing record ends, and when it
\* ends the status of the record is audio_ready if the call returned and
\* failed if it raised.
C10_AudioTerminates ==
    /\ \A p \in Procs : Inside(p, "generate_audio") ~> (pc[p] = "idle")
    /\ [][\A p \in Procs :
            (Inside(p, "generate_audio") /\ pc'[p] = "idle"
                /\ db[loc[p].sid].exists) =>
                \/ /\ loc'[p].result = "returned"
                   /\ db'[loc[p].sid].status = "audio_ready"
                \/ /\ loc'[p].result = "raised"
                   /\ db'[loc[p].sid].status = "failed"]_vars

\* a render of an existing record has returned, leaving it audio_ready
C10_Witness ==
    \E p \in Procs :
        /\ pc[p] = "idle"
        /\ loc[p].op = "generate_audio"
        /\ loc[p].result = "returned"
        /\ db[loc[p].sid].exists
        /\ db[loc[p].sid].status = "audio_ready"

\* ------------------------------------------------------------ the intervals of a track

\* the float x is greater than zero
Positive(x) == x.m # <<>> /\ ~x.neg

\* -x
FNeg(x) == IF x.m = <<>> THEN x ELSE [x EXCEPT !.neg = ~x.neg]

\* x < y
FLess(x, y) ==
    IF x.neg # y.neg THEN x.neg
    ELSE LET e == IF x.e < y.e THEN x.e ELSE y.e
             c == BigCmp(Shl(x.m, x.e - e), Shl(y.m, y.e - e))
         IN  IF x.neg THEN c > 0 ELSE c < 0

\* x and y differ by less than a microsecond
Close(x, y) ==
    LET d == FAdd(x, FNeg(y))
    IN  FLess([d EXCEPT !.neg = FALSE], FromMicros(1))

\* x and y differ by less than us microseconds
Within(x, y, us) ==
    LET d == FAdd(x, FNeg(y))
    IN  FLess([d EXCEPT !.neg = FALSE], FromMicros(us))

\* the time a written timestamp HH:MM:SS.mmm denotes, in milliseconds
TsMillis(ts) ==
    (ts.hours * SecondsPerHour + ts.minutes * SecondsPerMinute) * MillisPerSecond
      + ts.millis

\* a track builder has been called, on a text with a word and a duration > 0
TrackBuilt ==
    /\ job.op \in {"generate_tts_vtt", "generate_captions_vtt"}
    /\ split(job.summary_text) # <<>>
    /\ Positive(job.total_duration)

\* the written intervals follow one another from zero to total_duration:
\* the last end is the float total_duration itself up to the half
\* microsecond timedelta rounds by and the half millisecond the timestamp
\* rounds by, that is by less than 501 microseconds
Contiguous(cues, total_duration) ==
    /\ Len(cues) >= 1
    /\ TsMillis(cues[1].start) = 0
    /\ \A i \in 1..(Len(cues) - 1) :
          /\ cues[i].end = cues[i + 1].start
          /\ TsMillis(cues[i].end) <= TsMillis(cues[i + 1].end)
    /\ Within(FromMicros(TsMillis(cues[Len(cues)].end) * MicrosPerMilli),
              total_duration, MicrosPerMilli \div 2 + 1)

\* the last end of the written intervals is total_duration up to the half
\* millisecond the timestamp rounds by
EndsWithinHalfMilli(cues, total_duration) ==
    ~FLess(FromMicros(MicrosPerMilli \div 2),
           [FAdd(FromMicros(TsMillis(cues[Len(cues)].end) * MicrosPerMilli),
                 FNeg(total_duration)) EXCEPT !.neg = FALSE])

\* C11 as stated: for every text with at least one word and every
\* total_duration > 0 the intervals written by generate_tts_vtt and by
\* generate_captions_vtt start at 0, each ends where the next starts, the
\* ends do not decrease, every interval has end > start, and the last end
\* is total_duration up to the rounding of the timestamps.
C11_IntervalsPositive ==
    TrackBuilt =>
        /\ job.result.error = ""
        /\ Contiguous(job.result.cues, job.total_duration)
        /\ \A i \in 1..Len(job.result.cues) :
              TsMillis(job.result.cues[i].end) > TsMillis(job.result.cues[i].start)

\* C11 as amended: the written intervals start at 0, each ends where the
\* next starts, the ends do not decrease, the last end is total_duration up
\* to 0.501 milliseconds (half a millisecond when total_duration is a whole
\* number of microseconds), and every interval has end >= start, with
\* end > start when total_duration / n is at least two milliseconds.
C11_IntervalsContiguous ==
    TrackBuilt =>
        /\ job.result.error = ""
        /\ Contiguous(job.result.cues, job.total_duration)
        /\ job.total_duration \in WholeMicros =>
              EndsWithinHalfMilli(job.result.cues, job.total_duration)
        /\ \A i \in 1..Len(job.result.cues) :
              /\ TsMillis(job.result.cues[i].end) >= TsMillis(job.result.cues[i].start)
              /\ ~FLess(job.total_duration,
                        FromMicros(2 * MicrosPerMilli * Len(job.result.cues))) =>
                    TsMillis(job.result.cues[i].end)
                        > TsMillis(job.result.cues[i].start)

\* a track of several cues has been written for a duration that is no whole
\* number of microseconds, and its last end is more than half a millisecond
\* away from the duration
C11_Witness ==
    /\ TrackBuilt
    /\ job.total_duration = BelowHalfMilli
    /\ Len(job.result.cues) >= 3
    /\ ~EndsWithinHalfMilli(job.result.cues, job.total_duration)

\* C12: a track builder fails with an InvalidDuration error whenever
\* total_duration <= 0 or there is no segment, and produces no track for a
\* duration that is not positive.
C12_InvalidDuration ==
    (/\ job.op \in {"generate_tts_vtt", "generate_captions_vtt"}
     /\ (~Positive(job.total_duration) \/ split(job.summary_text) = <<>>)) =>
        /\ job.result.error = "InvalidDuration"
        /\ job.result.cues = <<>>

\* ------------------------------------------------------------ the segmenter

\* C13: for an empty or whitespace-only text split_into_segments signals
\* EmptyInput and returns no segment sequence.
C13_EmptyInput ==
    (/\ job.op = "split_into_segments"
     /\ \A i \in 1..Len(job.summary_text) : job.summary_text[i] \in Whitespace) =>
        job.result.error = "EmptyInput"

\* C14: the words of the segments returned by split_into_segments, taken in
\* order, are the words of the text: none dropped, repeated, moved or split.
C14_WordsPreserved ==
    job.op = "split_into_segments" =>
        SentenceWords(job.result.segments) = split(job.summary_text)

\* a text has been cut into several segments, one of them a single word
\* longer than the segment budget
C14_Witness ==
    /\ job.op = "split_into_segments"
    /\ Len(job.result.segments) >= 3
    /\ \E i \in 1..Len(job.result.segments) :
          Len(job.result.segments[i]) > job.max_chars * DefaultMaxLines

\* ------------------------------------------------------------ the captions track

\* C15 as stated: no rendered line of a cue of the captions track is longer
\* than max_chars.
C15_LinesWithinLimit ==
    job.op = "generate_captions_vtt" =>
        \A i \in 1..Len(job.result.cues) :
            \A l \in 1..Len(job.result.cues[i].lines) :
                Len(job.result.cues[i].lines[l]) <= job.max_chars

\* C15 as amended: a rendered line of the captions track is longer than
\* max_chars only if it is one single word, which is never broken.
C15_LinesWithinLimitOrOneWord ==
    job.op = "generate_captions_vtt" =>
        \A i \in 1..Len(job.result.cues) :
            \A l \in 1..Len(job.result.cues[i].lines) :
                LET line == job.result.cues[i].lines[l]
                IN  \/ Len(line) <= job.max_chars
                    \/ split(line) = <<line>>

\* a captions track of two cues, one of them of two lines with a single
\* word longer than max_chars on the first
C15_Witness ==
    /\ job.op = "generate_captions_vtt"
    /\ Len(job.result.cues) = 2
    /\ \E i \in 1..Len(job.result.cues) :
          /\ Len(job.result.cues[i].lines) = 2
          /\ Len(job.result.cues[i].lines[1]) > job.max_chars

\* the lengths of the written intervals, in milliseconds, added up
RECURSIVE TotalMillis(_)
TotalMillis(cues) ==
    IF cues = <<>> THEN 0
    ELSE TsMillis(Head(cues).end) - TsMillis(Head(cues).start)
           + TotalMillis(Tail(cues))

\* C16: for the narration "Breaking news today. Markets fell sharply." and
\* total_duration 10.0 the captions track has at least 2 timed blocks whose
\* interval lengths add up to 10.0 seconds.
C16_BreakingNews ==
    (/\ job.op = "generate_captions_vtt"
     /\ job.summary_text = BreakingNews
     /\ job.max_chars = DefaultMaxChars
     /\ job.total_duration = FromInt(10)) =>
        /\ Len(job.result.cues) >= 2
        /\ TotalMillis(job.result.cues) = 10 * MillisPerSecond

\* ------------------------------------------------------------ the manifest scenes

\* C17: build_manifest makes one scene per source, in input order, each of
\* duration total_duration / max(n, 1); the first starts at the 5 second
\* lead-in and every other one where the one before it ends; for no source
\* the scene list is empty.
C17_ScenesLaidOut ==
    job.op = "build_manifest" =>
        LET sources == job.articles_data
            scenes == job.result.articles
            n == Len(sources)
        IN  /\ Len(scenes) = n
            /\ \A i \in 1..n :
                  /\ scenes[i].id = sources[i].article_uuid
                  /\ scenes[i].source = sources[i].source_name
                  /\ scenes[i].duration
                        = FDivInt(job.total_duration, IF n > 1 THEN n ELSE 1)
                  /\ scenes[i].content.inPoint = scenes[i].startTime
                  /\ scenes[i].content.outPoint
                        = FAdd(scenes[i].startTime, scenes[i].duration)
            /\ n >= 1 => scenes[1].startTime = FromInt(LeadIn)
            /\ \A i \in 1..(n - 1) :
                  scenes[i + 1].startTime = scenes[i].content.outPoint

\* a manifest of three scenes of different sources has been built for a
\* positive duration
C17_Witness ==
    /\ job.op = "build_manifest"
    /\ Positive(job.total_duration)
    /\ Len(job.result.articles) = 3
    /\ job.result.articles[1].id # job.result.articles[2].id
    /\ FLess(job.result.articles[2].startTime, job.result.articles[3].startTime)

\* ------------------------------------------------------------ the markup of the TTS track

\* where a trigger word occurs in text as a whole word, whatever its case
WholeWordHits(text) ==
    {<<i, k>> \in (1..Len(text)) \X (1..Len(Triggers)) :
        /\ MatchesAt(text, Triggers[k], i)
        /\ Boundary(text, i)
        /\ Boundary(text, i + Len(Triggers[k]))}

\* C18: in the TTS track the first cue, and no other, is inside the slow
\* rate span; in every cue each whole-word occurrence of a trigger word, in
\* any case, is inside an emphasis span of its own and nothing else is, so
\* a word that only contains a trigger stays as it is; without the markup
\* the cue is the segment; and the intervals are those of the track that
\* carries no markup.
C18_Markup ==
    (job.op = "generate_tts_vtt" /\ job.result.error = "") =>
        LET cues == job.result.cues
            segments == split_into_segments(job.summary_text, DefaultMaxChars,
                                            DefaultMaxLines)
            plain == generate_captions_vtt(job.summary_text, job.total_duration,
                                           DefaultMaxChars).cues
        IN  /\ Len(cues) = Len(segments)
            /\ Len(cues) = Len(plain)
            /\ \A i \in 1..Len(cues) :
                  LET text == cues[i].lines[1]
                      opens == {j \in 1..Len(text) :
                                  OccursAt(text, EmphasisOpen, j)}
                  IN  /\ Len(cues[i].lines) = 1
                      /\ (i = 1) <=>
                            /\ OccursAt(text, RateOpen, 1)
                            /\ OccursAt(text, RateClose,
                                        Len(text) - Len(RateClose) + 1)
                      /\ (i # 1) =>
                            \A j \in 1..Len(text) :
                                /\ ~OccursAt(text, RateOpen, j)
                                /\ ~OccursAt(text, RateClose, j)
                      /\ StripMarkup(text, 1) = segments[i]
                      /\ Cardinality(opens) = Cardinality(WholeWordHits(segments[i]))
                      /\ \A j \in opens :
                            \E k \in 1..Len(Triggers) :
                                LET at == j + Len(EmphasisOpen)
                                IN  /\ MatchesAt(text, Triggers[k], at)
                                    /\ OccursAt(text, EmphasisClose,
                                                at + Len(Triggers[k]))
                      /\ cues[i].start = plain[i].start
                      /\ cues[i].end = plain[i].end

\* a TTS track of two cues whose second cue holds a trigger word inside an
\* emphasis span and a word that only contains a trigger
C18_Witness ==
    /\ job.op = "generate_tts_vtt"
    /\ Len(job.result.cues) = 2
    /\ LET text == job.result.cues[2].lines[1]
       IN  /\ \E j \in 1..Len(text) : OccursAt(text, EmphasisOpen, j)
           /\ \E j \in 1..Len(text) :
                 /\ MatchesAt(text, Triggers[4], j)
                 /\ ~Boundary(text, j + Len(Triggers[4]))

\* ------------------------------------------------------------ the steps of a render

\* C19: update_usage applies a pending rollover before it adds the delta.
\* Its load_usage_data resets every project whose stored period is not the
\* current one to chars_used 0 and the current period and persists that;
\* the delta is then added to what the load returned, so that such a
\* project is persisted with chars_used equal to the delta.
C19_RolloverBeforeDelta ==
    [][\A p \in Procs :
        /\ (Leaves(p, "ga_upd_save") /\ ~loc[p].fresh) =>
              /\ pc'[p] = "ga_upd_dump"
              /\ \A i \in 1..Len(loc[p].usage) :
                    loc[p].usage[i].period # now =>
                        /\ loc'[p].usage[i].chars_used = 0
                        /\ loc'[p].usage[i].period = now
        /\ Leaves(p, "ga_upd_dump") =>
              /\ pc'[p] = "ga_upd_add"
              /\ usage'.json
              /\ usage'.projects = loc[p].usage
        /\ Leaves(p, "ga_upd_add") =>
              /\ pc'[p] = "ga_add_dump"
              /\ \A i \in 1..Len(loc[p].usage) :
                  /\ loc'[p].usage[i].period = loc[p].usage[i].period
                  /\ loc'[p].usage[i].chars_used =
                        IF /\ loc[p].usage[i].project_id = loc[p].selected_id
                           /\ \A j \in 1..(i - 1) :
                                 loc[p].usage[j].project_id # loc[p].selected_id
                        THEN loc[p].usage[i].chars_used + loc[p].full_len
                        ELSE loc[p].usage[i].chars_used
        /\ Leaves(p, "ga_add_dump") =>
              /\ usage'.json
              /\ usage'.projects = loc[p].usage]_vars

\* the positions of generate_audio inside its try block, in program order
GaSteps ==
    <<"ga_read", "ga_config", "ga_load_read", "ga_load_save", "ga_load_dump",
      "ga_select", "ga_synth", "ga_open", "ga_write", "ga_upd_read",
      "ga_upd_save", "ga_upd_dump", "ga_upd_add", "ga_add_dump",
      "ga_stat_read", "ga_stat_save", "ga_stat_dump", "ga_commit", "idle">>

\* what a step of the render of worker p may do: the steps are taken in
\* the order of GaSteps or lead to the except clause; the project is
\* selected at the selection; the audio file is emptied at its open and
\* written at its write, and nothing else of the directories changes; the
\* usage is recorded after the audio is written; the status is updated at
\* the commit or in the except clause, and the call returns only after the
\* commit.  When the selection or the synthesis fails nothing of what
\* follows them runs: the usage file holds what the call has loaded and is
\* left alone, no file is written, and the record is set to failed with the
\* error message.
RenderStep(p) ==
    LET s == loc[p].sid
    IN  /\ IF pc[p] = "ga_except"
           THEN pc'[p] = "idle" /\ loc'[p].result = "raised"
           ELSE \/ pc'[p] = "ga_except"
                \/ \E k \in 1..(Len(GaSteps) - 1) :
                      pc[p] = GaSteps[k] /\ pc'[p] = GaSteps[k + 1]
        /\ (pc'[p] # "idle" /\ loc'[p].selected_id # loc[p].selected_id) =>
              pc[p] = "ga_select" /\ pc'[p] = "ga_synth"
        /\ disk' # disk =>
              /\ pc[p] \in {"ga_open", "ga_write"}
              /\ \A t \in Scripts \ {s} : disk'[t] = disk[t]
              /\ [disk'[s] EXCEPT !.audio = disk[s].audio,
                                  !.audio_size = disk[s].audio_size,
                                  !.unfinished = disk[s].unfinished] = disk[s]
              /\ disk'[s].unfinished \ {"audio"} = disk[s].unfinished \ {"audio"}
              /\ pc[p] = "ga_open" => pc'[p] = "ga_write" /\ ~disk'[s].audio
              /\ pc'[p] = "ga_except" => ~disk'[s].audio
        /\ (pc[p] = "ga_write" /\ pc'[p] = "ga_upd_read") => disk'[s].audio
        /\ (pc[p] = "ga_load_read" /\ pc'[p] = "ga_load_save" /\ usage.exists) =>
              loc'[p].usage = usage.projects
        /\ (pc'[p] \notin {"idle", "ga_except"}
               /\ pc[p] \notin LoadReadAt \cup LoadSaveAt
               /\ loc'[p].usage # loc[p].usage) =>
              /\ pc[p] = "ga_upd_add"
              /\ disk[s].audio
        /\ usage' # usage =>
              \/ pc[p] \in LoadSaveAt \cup {"ga_upd_add"}
                    /\ usage' = Truncated
              \/ pc[p] \in SaveDumpAt
                    /\ usage' = UsageFile(loc[p].usage)
        /\ db' # db =>
              /\ pc[p] \in {"ga_commit", "ga_except"}
              /\ pc[p] = "ga_commit" =>
                    /\ db'[s].status = "audio_ready"
                    /\ loc'[p].result = "returned"
        /\ (pc'[p] = "idle" /\ loc'[p].result = "returned") =>
              pc[p] = "ga_commit"
        /\ (pc[p] \in {"ga_select", "ga_synth"} /\ pc'[p] = "ga_except") =>
              /\ loc'[p].e \in {QuotaMsg, SynthMsg, NoGetMsg}
              /\ UNCHANGED <<usage, disk, db>>
        /\ (pc[p] = "ga_except"
               /\ loc[p].e \in {QuotaMsg, SynthMsg, NoGetMsg}) =>
              /\ usage' = usage
              /\ usage.projects = loc[p].usage
              /\ disk' = disk
              /\ db'[s].status = "failed"
              /\ db'[s].error_message = loc[p].e

\* the load_usage_data before the selection returns the chars_used values
\* it has read from the usage file
LoadKeeps(p) ==
    pc[p] = "ga_load_save" =>
        Chars(loc'[p].usage) = Chars(loc[p].usage)

\* the load_usage_data before the selection returns the chars_used values
\* it has read from the usage file, but 0 for a project whose stored month
\* is not the current month and for every project of a file it has created
LoadResets(p) ==
    pc[p] = "ga_load_save" =>
        /\ Len(loc'[p].usage) = Len(loc[p].usage)
        /\ \A i \in 1..Len(loc[p].usage) :
              loc'[p].usage[i].chars_used =
                  IF ~loc[p].fresh
                        /\ loc[p].usage[i].month = CurrentMonth(now)
                  THEN loc[p].usage[i].chars_used
                  ELSE 0

\* C20 as stated: generate_audio selects the project, calls the synthesis,
\* writes the audio file, records the usage and updates the status, in this
\* order; when the selection or the synthesis fails nothing of what follows
\* them runs, the record is set to failed, and the chars_used values of the
\* ledger are unchanged: the usage file holds at the failure what the call
\* has loaded, and (the synthesis may fail in every call that has loaded)
\* the load of every call returns the values the file held before the call.
C20_LedgerUnchanged ==
    [][\A p \in Procs :
        (Inside(p, "generate_audio") /\ pc'[p] # pc[p]) =>
            RenderStep(p) /\ LoadKeeps(p)]_vars

\* C20 as amended: generate_audio selects the project, calls the synthesis,
\* writes the audio file, records the usage and updates the status, in this
\* order; when the selection or the synthesis fails nothing of what follows
\* them runs, no character is charged and the record is set to failed; the
\* chars_used values of the ledger are then those the load of the call has
\* returned and saved: the values before the call, with 0 for a project
\* whose stored month is not the current month.
C20_StepsInOrder ==
    [][\A p \in Procs :
        (Inside(p, "generate_audio") /\ pc'[p] # pc[p]) =>
            RenderStep(p) /\ LoadResets(p)]_vars

\* the script has been generated and its first render, the second request,
\* has failed at the synthesis call after its load has read a usage file of
\* an earlier month and reset it: the file holds zeros, and the except
\* clause is about to set the record to failed
C20_Witness ==
    \E p \in Procs :
        /\ requests = 2
        /\ pc[p] = "ga_except"
        /\ loc[p].op = "generate_audio"
        /\ loc[p].e = SynthMsg
        /\ ~loc[p].fresh
        /\ usage.json
        /\ usage.projects = loc[p].usage
        /\ \A i \in 1..Len(usage.projects) :
              usage.projects[i].chars_used = 0
        /\ ~disk[loc[p].sid].audio
        /\ db[loc[p].sid].status = "generated"


\* ------------------------------------------------------------ two renders at once

\* the render of worker p has selected a project and recorded the usage,
\* and has not yet marked the record
Recorded(p) ==
    /\ loc[p].op = "generate_audio"
    /\ pc[p] \in {"ga_stat_read", "ga_stat_save", "ga_stat_dump", "ga_commit"}

\* no render has ended yet: the record is as generate_script left it
NoRenderEnded == \A s \in Scripts : db[s].exists => db[s].status = "generated"

\* C21: the selection of a render looks at nothing but the ledger the render
\* read itself: whenever that ledger holds a project below safety_limit the
\* render goes on to synthesis with the least-used such project, which it saw
\* below the limit, wherever the other execution stands; nothing keeps two
\* renders from selecting the same project before either records its usage.
C21_SelectionsIndependent ==
    [][\A p \in Procs :
          Leaves(p, "ga_select") =>
              LET config == loc[p].config
              IN  LET i == select_project(config, loc[p].usage)
                  IN  IF Available(config, loc[p].usage) = {}
                      THEN pc'[p] = "ga_except"
                      ELSE /\ pc'[p] = "ga_synth"
                           /\ loc'[p].config = config
                           /\ loc'[p].selected_id = loc[p].usage[i].project_id
                           /\ loc[p].usage[i].chars_used
                                 < safety_limit(config)]_vars

\* Two renders have both selected project A and both recorded their usage.
\* B stood below A plus one render, so the second selection of A was made on
\* a ledger read before the first render recorded; A is now past the limit.
C21_Witness ==
    /\ NoRenderEnded
    /\ \A p \in Procs :
          /\ Recorded(p)
          /\ loc[p].selected_id = ConfigProjects[1]
          /\ "safety_limit" \in DOMAIN loc[p].config
    /\ \A p \in Procs :
          /\ ConcLedger[1] + loc[p].full_len < SafetyLimit
          /\ ConcLedger[2] < ConcLedger[1] + loc[p].full_len
    /\ usage.json
    /\ usage.projects[1].chars_used > SafetyLimit

\* C22: update_usage saves the ledger it read plus its own delta, whatever
\* the file holds by then: the selected project gets the figure read plus
\* the character count and every other project the figure read, so what
\* another update_usage has saved in between is lost.
C22_StaleWrite ==
    [][\A p \in Procs :
          /\ Leaves(p, "ga_upd_add") =>
                /\ pc'[p] = "ga_add_dump"
                /\ Len(loc'[p].usage) = Len(loc[p].usage)
                /\ \A i \in 1..Len(loc[p].usage) :
                      loc'[p].usage[i].chars_used =
                          loc[p].usage[i].chars_used
                            + (IF loc[p].usage[i].project_id = loc[p].selected_id
                               THEN loc[p].full_len ELSE 0)
          /\ Leaves(p, "ga_add_dump") =>
                /\ usage'.exists
                /\ usage'.json => usage'.projects = loc[p].usage
                /\ usage.size <= JsonSize(loc[p].usage) => usage'.json]_vars

\* Two update_usage calls for project A have both just returned, and A holds
\* the figure it started from plus one delta only.
C22_Witness ==
    /\ NoRenderEnded
    /\ usage.json
    /\ \A p \in Procs :
          /\ loc[p].op = "generate_audio"
          /\ pc[p] = "ga_stat_read"
          /\ loc[p].selected_id = ConfigProjects[1]
          /\ loc[p].full_len > 0
          /\ usage.projects[1].chars_used = ConcLedger[1] + loc[p].full_len

\* C25: load_usage_data saves the whole ledger it read on every call, also
\* when the rollover loop has changed nothing, and whatever the file holds
\* by then.
C25_ReadRewrites ==
    [][\A p \in Procs :
          /\ (pc[p] \in LoadSaveAt /\ pc'[p] # pc[p]) =>
                /\ usage' = Truncated
                /\ pc'[p] = AfterOpen(pc[p])
                /\ loc'[p].usage = Loaded(p)
                /\ (~loc[p].fresh /\ \A i \in 1..Len(loc[p].usage) :
                          loc[p].usage[i].month = CurrentMonth(now))
                     => loc'[p].usage = loc[p].usage
          /\ (pc[p] \in SaveDumpAt /\ pc'[p] # pc[p]) =>
                /\ usage'.exists
                /\ usage'.json => usage'.projects = loc[p].usage
                /\ usage.size <= JsonSize(loc[p].usage) => usage'.json]_vars

\* A render has just recorded its usage for project A, the statistics
\* endpoint has returned, and the file holds the figures from before the
\* render: the read has erased the recorded usage.
C25_Witness ==
    /\ NoRenderEnded
    /\ \E p \in Procs :
          /\ loc[p].op = "generate_audio"
          /\ pc[p] = "ga_stat_read"
          /\ loc[p].selected_id = ConfigProjects[1]
          /\ loc[p].full_len > 0
          /\ \A q \in Procs \ {p} :
                /\ pc[q] = "idle"
                /\ loc[q].op = "get_tts_usage"
                /\ loc[q].result = "returned"
    /\ usage.json
    /\ Chars(usage.projects) = ConcLedger

\* ------------------------------------------------------------ the steps of a generation

\* C23: within one generate_script both tracks are built before the
\* manifest is built, every artifact is written before the record is
\* persisted, and the record is marked generated only after every artifact
\* write has succeeded.
C23_TracksThenManifest ==
    [][\A p \in Procs :
          /\ (Leaves(p, "gs_manifest") /\ pc'[p] # "gs_except") =>
                 /\ disk[loc[p].sid].tts >= 0
                 /\ disk[loc[p].sid].captions
          /\ Leaves(p, "gs_commit") =>
                 /\ disk[loc[p].sid].manifest
                 /\ disk[loc[p].sid].tts >= 0
                 /\ disk[loc[p].sid].captions
                 /\ disk[loc[p].sid].metadata
          /\ \A s \in Scripts :
                 (db'[s].status = "generated" /\ db[s].status # "generated") =>
                     /\ Leaves(p, "gs_commit") => loc[p].sid = s
                     /\ disk[s].manifest /\ disk[s].tts >= 0
                     /\ disk[s].captions /\ disk[s].metadata]_vars

\* ------------------------------------------------------------ the segments

\* C24: every segment returned by split_into_segments is non-empty and is
\* either no longer than max_chars_per_line * max_lines or one single word;
\* a segment is closed only when the next word, appended to it after a
\* space, would exceed that limit.
C24_SegmentsGreedy ==
    job.op = "split_into_segments" =>
        LET segments == job.result.segments
            limit == job.max_chars * DefaultMaxLines
        IN  /\ \A i \in 1..Len(segments) :
                  /\ Len(segments[i]) > 0
                  /\ Len(split(segments[i])) >= 1
                  /\ \/ Len(segments[i]) <= limit
                     \/ Len(split(segments[i])) = 1
            /\ \A i \in 1..(Len(segments) - 1) :
                  Len(segments[i]) + 1 + Len(split(segments[i + 1])[1]) > limit

\* a text has been cut into a segment of several words and a segment that
\* is one word longer than the limit
C24_Witness ==
    /\ job.op = "split_into_segments"
    /\ Len(job.result.segments) >= 2
    /\ \E i \in 1..Len(job.result.segments) :
          /\ Len(split(job.result.segments[i])) >= 2
          /\ Len(job.result.segments[i]) <= job.max_chars * DefaultMaxLines
    /\ \E i \in 1..Len(job.result.segments) :
          Len(job.result.segments[i]) > job.max_chars * DefaultMaxLines

\* ------------------------------------------------------------ a render repeated

\* C26: generate_audio does not look at the status.  On a record that is
\* audio_ready it reads the track and goes on to a new selection; when the
\* synthesis succeeds it adds the full character count to the selected
\* project again and the status stays audio_ready; when the render fails
\* the record moves to failed and its audio path stays set.
C26_RenderOfAudioReady ==
    [][\A p \in Procs :
          LET s == loc[p].sid
          IN  (loc[p].op = "generate_audio" /\ s \in Scripts
                 /\ db[s].status = "audio_ready") =>
                  /\ (Leaves(p, "ga_read") /\ TrackOnDisk(s)) =>
                         pc'[p] = "ga_config"
                  /\ Leaves(p, "ga_upd_add") =>
                         /\ \A i \in 1..Len(loc[p].usage) :
                               loc[p].usage[i].project_id = loc[p].selected_id =>
                                   loc'[p].usage[i].chars_used =
                                       loc[p].usage[i].chars_used
                                         + disk[s].tts
                         /\ db'[s].status = "audio_ready"
                  /\ Leaves(p, "ga_add_dump") =>
                         /\ usage' = UsageFile(loc[p].usage)
                         /\ db'[s].status = "audio_ready"
                  /\ (Leaves(p, "ga_commit") /\ pc'[p] = "idle") =>
                         /\ db'[s].status = "audio_ready"
                         /\ db'[s].audio_file_path = AudioPath(s)
                  /\ Leaves(p, "ga_except") =>
                         /\ db'[s].status = "failed"
                         /\ db'[s].error_message = loc[p].e
                         /\ db'[s].audio_file_path = db[s].audio_file_path
                         /\ db[s].audio_file_path = AudioPath(s)]_vars

\* The only record is audio_ready and a second render of it has just
\* recorded its usage: the text has been charged twice, to project A.
C26_Witness ==
    \E p \in Procs :
        LET s == loc[p].sid
        IN  /\ loc[p].op = "generate_audio"
            /\ pc[p] = "ga_stat_read"
            /\ db[s].status = "audio_ready"
            /\ db[s].audio_file_path = AudioPath(s)
            /\ disk[s].audio
            /\ \A t \in Scripts \ {s} : ~db[t].exists /\ t \notin issued
            /\ disk[s].tts > 0
            /\ usage.json
            /\ \E c \in InitLedgers :
                  usage.projects[1].chars_used = c[1] + 2 * disk[s].tts

\* C27: with one request served at a time and no rollover due, a render
\* changes the ledger in one step only, the one that records the usage:
\* chars_used of the selected project grows by the length of the
\* markup-stripped track text, every other entry and the list of projects
\* stay as they are.
C27_RenderFrame ==
    [][\A p \in Procs :
          (loc[p].op = "generate_audio" /\ pc'[p] # pc[p]
             /\ pc'[p] \notin {"idle", "ga_except"}) =>
              LET current(projects) ==
                      \A i \in 1..Len(projects) :
                          projects[i].month = CurrentMonth(now)
              IN  /\ (pc[p] \in LoadReadAt /\ usage.json) =>
                        loc'[p].usage = usage.projects /\ usage' = usage
                  /\ (pc[p] \in LoadSaveAt /\ ~loc[p].fresh
                         /\ current(loc[p].usage)) =>
                        loc'[p].usage = loc[p].usage
                  /\ pc[p] \in SaveDumpAt =>
                        usage' = UsageFile(loc[p].usage) /\ loc'[p] = loc[p]
                  /\ pc[p] = "ga_upd_add" =>
                        /\ Len(loc'[p].usage) = Len(loc[p].usage)
                        /\ Cardinality({i \in 1..Len(loc[p].usage) :
                               loc[p].usage[i].project_id
                                   = loc[p].selected_id}) = 1
                        /\ \A i \in 1..Len(loc[p].usage) :
                              loc'[p].usage[i] =
                                  IF loc[p].usage[i].project_id
                                        = loc[p].selected_id
                                  THEN [loc[p].usage[i] EXCEPT
                                          !.chars_used =
                                              @ + disk[loc[p].sid].tts]
                                  ELSE loc[p].usage[i]
                  /\ pc[p] \notin LoadReadAt \cup LoadSaveAt \cup SaveDumpAt
                                  \cup {"ga_upd_add"} =>
                        /\ usage' = usage
                        /\ loc'[p].usage = loc[p].usage]_vars

\* a render has just recorded its usage: project A holds the figure it
\* started from plus the length of the text, project B its own
C27_Witness ==
    \E p \in Procs :
        /\ loc[p].op = "generate_audio"
        /\ pc[p] = "ga_stat_read"
        /\ loc[p].selected_id = ConfigProjects[1]
        /\ disk[loc[p].sid].tts > 0
        /\ usage.json
        /\ \E c \in InitLedgers :
              Chars(usage.projects) = <<c[1] + disk[loc[p].sid].tts, c[2]>>

\* ------------------------------------------------------------ the two tracks side by side

\* the two cue lists have as many cues, and cue i of one has the start and
\* the end of cue i of the other
SameIntervals(a, b) ==
    /\ Len(a) = Len(b)
    /\ \A i \in 1..Len(a) : a[i].start = b[i].start /\ a[i].end = b[i].end

\* C28: with the default limits generate_tts_vtt and generate_captions_vtt
\* cut the same text into the same segments, of at most 35 * 2 characters:
\* the two tracks have the same number of cues, one per segment, and cue i
\* has the same start and end in both; for a text without words both raise.
C28_TracksAligned ==
    LET segments == split_into_segments(job.summary_text, DefaultMaxChars,
                                        DefaultMaxLines)
        tts == generate_tts_vtt(job.summary_text, job.total_duration)
        captions == generate_captions_vtt(job.summary_text, job.total_duration,
                                          DefaultMaxChars)
    IN  /\ job.op = "generate_tts_vtt" =>
              /\ job.result.error = captions.error
              /\ Len(job.result.cues) = Len(segments)
              /\ SameIntervals(job.result.cues, captions.cues)
        /\ (job.op = "generate_captions_vtt" /\ job.max_chars = DefaultMaxChars) =>
              /\ job.result.error = tts.error
              /\ Len(job.result.cues) = Len(segments)
              /\ SameIntervals(job.result.cues, tts.cues)

\* a captions track of several cues, each of another interval, has been
\* built with the default limits
C28_Witness ==
    /\ job.op = "generate_captions_vtt"
    /\ job.max_chars = DefaultMaxChars
    /\ Positive(job.total_duration)
    /\ Len(job.result.cues) >= 2
    /\ job.result.cues[2].start # job.result.cues[1].start
    /\ job.result.cues[2].end # job.result.cues[1].end

\* ------------------------------------------------------------ the timeline of the manifest

\* the durations of the scenes added up
RECURSIVE TotalDuration(_, _)
TotalDuration(scenes, sum) ==
    IF scenes = <<>> THEN sum
    ELSE TotalDuration(Tail(scenes), FAdd(sum, Head(scenes).duration))

\* C29 as stated: in a manifest built for at least one source the durations
\* of the scenes add up to total_duration and the content of the last scene
\* ends at 5 + total_duration, so for a duration that is not negative the
\* timeline runs past project.totalDuration by exactly the lead-in.
C29_TimelineExact ==
    (job.op = "build_manifest" /\ Len(job.articles_data) >= 1) =>
        LET scenes == job.result.articles
            last == scenes[Len(scenes)]
        IN  /\ job.result.totalDuration = job.total_duration
            /\ TotalDuration(scenes, Zero) = job.result.totalDuration
            /\ last.content.outPoint
                  = FAdd(FromInt(LeadIn), job.result.totalDuration)
            /\ ~job.result.totalDuration.neg =>
                  FLess(job.result.totalDuration, last.content.outPoint)

\* C29 as amended: in a manifest built for at least one source the
\* durations of the scenes add up to total_duration, and the content of the
\* last scene ends at 5 + total_duration, each up to the rounding of the
\* float additions (less than a microsecond here) and exactly for a single
\* source; for a duration that is not negative the timeline runs past
\* project.totalDuration.
C29_TimelinePastTotal ==
    (job.op = "build_manifest" /\ Len(job.articles_data) >= 1) =>
        LET scenes == job.result.articles
            last == scenes[Len(scenes)]
            end == FAdd(FromInt(LeadIn), job.result.totalDuration)
        IN  /\ job.result.totalDuration = job.total_duration
            /\ Close(TotalDuration(scenes, Zero), job.result.totalDuration)
            /\ Close(last.content.outPoint, end)
            /\ Len(scenes) = 1 =>
                  /\ TotalDuration(scenes, Zero) = job.result.totalDuration
                  /\ last.content.outPoint = end
            /\ ~job.result.totalDuration.neg =>
                  FLess(job.result.totalDuration, last.content.outPoint)

\* a manifest of ten seconds has been built for three sources: its third
\* scene begins past ten seconds, where the project ends, and ends close
\* to fifteen seconds but not at them
C29_Witness ==
    /\ job.op = "build_manifest"
    /\ Len(job.result.articles) = 3
    /\ job.result.totalDuration = FromInt(10)
    /\ FLess(job.result.totalDuration, job.result.articles[3].startTime)
    /\ job.result.articles[3].content.outPoint # FromInt(15)
    /\ Close(job.result.articles[3].content.outPoint, FromInt(15))

\* ------------------------------------------------------------ the TTS track read back

\* no word of text holds "<", ">" or an arrow
PlainWords(text) ==
    /\ \A i \in 1..Len(text) : text[i] \notin {"<", ">"}
    /\ ~HasArrow(text)

\* C30: for a text of at least one word whose words hold no "<", ">" or
\* "-->", parse_vtt_file on the output of generate_tts_vtt returns one entry
\* per segment, in order, with the timing line and the text of the cue; the
\* texts joined by spaces, markup removed as generate_audio does, are the
\* words of the text in order with one space between them, so no header or
\* NOTE line is in the synthesized text.
C30_TrackRoundTrip ==
    (/\ job.op = "parse_vtt_file"
     /\ Len(split(job.summary_text)) >= 1
     /\ PlainWords(job.summary_text)) =>
        LET segments == split_into_segments(job.summary_text, DefaultMaxChars,
                                            DefaultMaxLines)
            cues == generate_tts_vtt(job.summary_text, job.total_duration).cues
            entries == job.result.segments
        IN  /\ job.result.error = ""
            /\ Len(entries) = Len(segments)
            /\ Len(entries) = Len(cues)
            /\ \A i \in 1..Len(entries) :
                  /\ entries[i].text = cues[i].lines[1]
                  /\ HasArrow(entries[i].timing)
                  /\ entries[i].timing
                        = TimeText(cues[i].start) \o <<" ">> \o Arrow \o <<" ">>
                            \o TimeText(cues[i].end)
                  /\ StripMarkup(entries[i].text, 1) = segments[i]
            /\ split(job.result.full_text) = split(job.summary_text)
            /\ job.result.full_text = join(split(job.summary_text))

\* a track of several cues, with the rate span and an emphasis span, has
\* been read back
C30_Witness ==
    /\ job.op = "parse_vtt_file"
    /\ Len(job.result.segments) >= 2
    /\ \E i \in 1..Len(job.result.segments) :
          \E j \in 1..Len(job.result.segments[i].text) :
              OccursAt(job.result.segments[i].text, EmphasisOpen, j)
    /\ OccursAt(job.result.segments[1].text, RateOpen, 1)
    /\ Len(split(job.result.full_text)) = MaxWords

====
